---- MODULE Spec2Model ----
(***************************************************************************)
(* Model of the sproxyd client of ScalitySproxydSwift: the accrual failure *)
(* detector (afd.py), the health monitoring loop (utils.monitoring_loop),  *)
(* and the SproxydClient routing state (_alive, _cycle) with its object    *)
(* operations (sproxyd_client.py).                                         *)
(*                                                                         *)
(* Scheduling.  The code runs on eventlet green threads: a thread gives up *)
(* the processor only where it waits (eventlet.sleep, socket I/O).  One    *)
(* action of the model is therefore one run of a thread between two such   *)
(* points.  Time is a global integer clock of seconds; time.time() read    *)
(* twice inside one action returns the same value.                         *)
(***************************************************************************)
EXTENDS Integers, Sequences, FiniteSets, TLC

VARIABLES
    now,             \* time.time(), in whole seconds
    endpoints,       \* SproxydClient.endpoints (frozenset)
    client,          \* [alive |-> SproxydClient._alive, cycle |-> SproxydClient._cycle]
    afd,             \* per endpoint: the AccrualFailureDetector of its monitoring_loop
    is_operational,  \* per endpoint: the flag of its monitoring_loop
    wake,            \* per endpoint: earliest time of the loop's next iteration
    cb_log,          \* history: per endpoint, the callbacks its loop has invoked, in order
    ping_count,      \* history: per endpoint, how many probes of its loop succeeded (ok) and failed (ko)
    drawn,           \* history: the draws from _cycle since it was last built, [ep, by]
    ops,             \* per caller: the object operation it runs
    clients,         \* per client of the ClientCollection: its [alive, cycle]
    reads,           \* the ClientCollection.try_read call in progress
    probe,           \* history: per endpoint, the last health check of _ping
    construction,    \* history: the call of SproxydClient.__init__
    healthcheck_threads, \* SproxydClient._healthcheck_threads
    fp,              \* a SomewhatBufferedFileObject and the socket it reads
    writer,          \* a DiskFileWriter
    diskfile         \* a DiskFile

vars == <<now, endpoints, client, afd, is_operational, wake, cb_log, ping_count,
          drawn, ops, clients, reads, probe, construction,
          healthcheck_threads, fp, writer, diskfile>>

\* the state of a SproxydClient, its monitoring loops and its callers
sproxyd_vars == <<now, endpoints, client, afd, is_operational, wake, cb_log,
                  ping_count, drawn, ops, clients, reads, probe, construction>>

-----------------------------------------------------------------------------
(* Bounds of the model *)

MaxTime == 12
\* the clock ticks left when the two-endpoint client is constructed
Horizon == 3
\* AccrualFailureDetector.max_sample_size is 1000 in afd.py; the unit test
\* lowers it to 3.  The model keeps it small so that eviction happens.
max_sample_size == 2
\* how many draws the history keeps
MaxDrawn == 6
\* how many chunks of 64 KiB the body of an object has
MaxChunks == 2
\* how many endpoints a client is constructed with
MaxEndpoints == 2
\* how many bytes the buffer and the socket of a response hold at first
MaxBuffered == 2
\* how many calls are made on a file object
MaxCalls == 3
\* how many bytes are written to a DiskFileWriter
MaxUpload == 4
\* the latest X-Delete-At and the latest time of an open
MaxDeleteAt == 2
\* how many calls are made on a DiskFile
MaxDiskFileCalls == 3

(* Program constants *)

threshold == 2
\* log10(e) in millionths: phi = -log10(e^(-diff/mean)) = (diff/mean) * log10(e)
Log10eMicro == 434294
Micro == 1000000
\* 1 - (1.0 - p) is 0.0 in double precision once p < 2^-54, i.e. once
\* -log10(p) exceeds 16.25; phi() then takes prob = 1E-128
ZeroProbPhiMicro == 16250000
ClampedPhi == 128

None == "None"

Universe == {"A", "B", "C"}
Callers == {"c1", "c2"}

-----------------------------------------------------------------------------
(* Helpers *)

Range(s) == {s[i] : i \in 1..Len(s)}

RECURSIVE SumSeq(_)
SumSeq(s) == IF s = <<>> THEN 0 ELSE Head(s) + SumSeq(Tail(s))

\* the iteration orders a frozenset may have
Orders(S) ==
    {f \in [1..Cardinality(S) -> S] : \A i, j \in 1..Cardinality(S) : i # j => f[i] # f[j]}

-----------------------------------------------------------------------------
(* afd.py: AccrualFailureDetector.  _timestamp is 0 while it is None (the   *)
(* code tests it with "not self._timestamp"); _mean is NoMean while it is   *)
(* None and else <<sum, count>>, the quotient sum / float(count).           *)

NoMean == <<>>

afd_init == [intervals |-> <<>>, timestamp |-> 0, mean |-> NoMean]

\* faulty variant: the mean is computed from the first interval on
heartbeat_mean_from_first_interval(a, t) ==
    IF a.timestamp = 0
    THEN [a EXCEPT !.timestamp = t]
    ELSE LET interval == t - a.timestamp
             appended == Append(a.intervals, interval)
             kept     == IF Len(appended) > max_sample_size
                         THEN Tail(appended) ELSE appended
         IN  [intervals |-> kept,
              timestamp |-> t,
              mean      |-> <<SumSeq(kept), Len(kept)>>]

\* faulty variant: the oldest sample is evicted one heartbeat late
heartbeat_evicts_late(a, t) ==
    IF a.timestamp = 0
    THEN [a EXCEPT !.timestamp = t]
    ELSE LET interval == t - a.timestamp
             kept     == IF Len(a.intervals) > max_sample_size
                         THEN Append(Tail(a.intervals), interval)
                         ELSE Append(a.intervals, interval)
         IN  [intervals |-> kept,
              timestamp |-> t,
              mean      |-> IF Len(kept) > 1
                            THEN <<SumSeq(kept), Len(kept)>> ELSE a.mean]

heartbeat(a, t) ==
    IF a.timestamp = 0
    THEN [a EXCEPT !.timestamp = t]
    ELSE LET interval == t - a.timestamp
             appended == Append(a.intervals, interval)
             kept     == IF Len(appended) > max_sample_size
                         THEN Tail(appended) ELSE appended
         IN  [intervals |-> kept,
              timestamp |-> t,
              mean      |-> IF Len(kept) > 1
                            THEN <<SumSeq(kept), Len(kept)>> ELSE a.mean]

\* faulty variant: a detector without a mean is taken for alive
phi_zero_without_mean(a, t) ==
    IF a.mean = NoMean
    THEN 0
    ELSE LET diff == t - a.timestamp
             p    == (diff * a.mean[2] * Log10eMicro) \div a.mean[1]
         IN  IF p > ZeroProbPhiMicro THEN ClampedPhi * Micro ELSE p

\* faulty variant: the time of the last heartbeat is not subtracted
phi_absolute_time(a, t) ==
    IF a.mean = NoMean
    THEN (threshold + 1) * Micro
    ELSE LET p == (t * a.mean[2] * Log10eMicro) \div a.mean[1]
         IN  IF p > ZeroProbPhiMicro THEN ClampedPhi * Micro ELSE p

\* phi(), in millionths
phi(a, t) ==
    IF a.mean = NoMean
    THEN (threshold + 1) * Micro
    ELSE LET diff == t - a.timestamp
             p    == (diff * a.mean[2] * Log10eMicro) \div a.mean[1]
         IN  IF p > ZeroProbPhiMicro THEN ClampedPhi * Micro ELSE p

isAlive(a, t) == phi(a, t) < threshold * Micro

isDead(a, t) == ~isAlive(a, t)

-----------------------------------------------------------------------------
(* sproxyd_client.py: the routing state *)

\* itertools.cycle(s): the set it iterates, its elements in iteration order,
\* and how many of the current round have been returned
itertools_cycle(s, order) == [src |-> s, order |-> order, pos |-> 0]

\* faulty variant: _cycle is not rebuilt
_alter_alive_stale_cycle(cl, new_alive, order) ==
    [alive |-> new_alive, cycle |-> cl.cycle]

_alter_alive(cl, new_alive, order) ==
    [alive |-> new_alive, cycle |-> itertools_cycle(new_alive, order)]

\* faulty variant: an endpoint that was never configured is added as well
_on_sproxyd_up_unconfigured(cl, endpoint, order) ==
    _alter_alive(cl, cl.alive \cup {endpoint, "C"}, order)

\* faulty variant: the update is computed from a stale, empty alive set, so
\* that what other callbacks did is lost
_on_sproxyd_up_lost_update(cl, endpoint, order) ==
    _alter_alive(cl, {endpoint}, <<endpoint>>)

_on_sproxyd_up(cl, endpoint, order) ==
    _alter_alive(cl, cl.alive \cup {endpoint}, order)

\* faulty variant: every endpoint is removed
_on_sproxyd_down_all(cl, endpoint, order) ==
    _alter_alive(cl, {}, <<>>)

\* faulty variant: the endpoint is not removed
_on_sproxyd_down_keeps(cl, endpoint, order) ==
    _alter_alive(cl, cl.alive, order)

_on_sproxyd_down(cl, endpoint, order) ==
    _alter_alive(cl, cl.alive \ {endpoint}, order)

has_alive_endpoints(cl) == Cardinality(cl.alive) > 0

\* faulty variant: the cursor restarts instead of advancing past the second element
cycle_next_restarts(cy) ==
    IF Len(cy.order) = 0
    THEN [value |-> "StopIteration", cycle |-> cy]
    ELSE [value |-> cy.order[cy.pos + 1],
          cycle |-> [cy EXCEPT !.pos = IF cy.pos >= 1 THEN 0 ELSE cy.pos + 1]]

\* _cycle.next(): the element returned ("StopIteration" when the cycle is
\* over an empty set) and the cycle afterwards
cycle_next(cy) ==
    IF Len(cy.order) = 0
    THEN [value |-> "StopIteration", cycle |-> cy]
    ELSE [value |-> cy.order[cy.pos + 1],
          cycle |-> [cy EXCEPT !.pos = (cy.pos + 1) % Len(cy.order)]]

\* the history of draws, the oldest dropped beyond MaxDrawn
Record(log, ep, c) ==
    LET l == Append(log, [ep |-> ep, by |-> c])
    IN  IF Len(l) > MaxDrawn THEN Tail(l) ELSE l

\* self.get_next_endpoint() run by caller c: the value returned (or
\* "StopIteration", raised) and the cursor and the history afterwards
draw(cl, log, c) ==
    LET r == cycle_next(cl.cycle)
    IN  [value  |-> r.value,
         client |-> [cl EXCEPT !.cycle = r.cycle],
         drawn  |-> IF r.value = "StopIteration" THEN log ELSE Record(log, r.value, c)]

\* faulty variant: the cursor's advance is lost when another caller drew last
get_next_endpoint_lost_update(c) ==
    LET d == draw(client, drawn, c)
        other == drawn # <<>> /\ drawn[Len(drawn)].by # c
    IN  /\ client' = IF other THEN client ELSE d.client
        /\ drawn' = d.drawn
        /\ UNCHANGED <<now, endpoints, afd, is_operational, wake, cb_log,
                       ping_count, ops, clients, reads, probe, construction,
                       healthcheck_threads, fp, writer, diskfile>>

\* A caller runs SproxydClient.get_next_endpoint()
get_next_endpoint(c) ==
    LET d == draw(client, drawn, c)
    IN  /\ client' = d.client
        /\ drawn' = d.drawn
        /\ UNCHANGED <<now, endpoints, afd, is_operational, wake, cb_log,
                       ping_count, ops, clients, reads, probe, construction,
                       healthcheck_threads, fp, writer, diskfile>>

-----------------------------------------------------------------------------
(* sproxyd_client.py: the object operations.  ops[c] is the operation of    *)
(* caller c: pc is "idle", "request" (pool.request is waiting for the       *)
(* response), "returned" or "raised"; result is what was returned or the    *)
(* exception raised; requests counts the HTTP requests issued; alive_empty  *)
(* tells whether _alive was empty when the operation was called; body is    *)
(* the body of the response ("unread", "partial", "drained") and conn its   *)
(* connection ("in_use" or "released" to the pool), both None without a     *)
(* response; generator is the generator get_object returned ("open",       *)
(* "exhausted", "closed") and chunks counts the chunks the consumer took    *)
(* from it.                                                                 *)

Operations == {"get_meta", "put_meta", "del_object", "get_object"}

Statuses == {200, 206, 404, 500}

no_op == [pc |-> "idle", op |-> None, endpoint |-> None, requests |-> 0,
          alive_empty |-> FALSE, result |-> None, http_status |-> 0,
          body |-> None, conn |-> None, generator |-> None, chunks |-> 0]

\* faulty variant: del_object does not handle 404
handlers_del_object_404_unhandled(op) ==
    CASE op = "get_meta"   -> {200, 404}
      [] op = "put_meta"   -> {200}
      [] op = "del_object" -> {200}
      [] op = "get_object" -> {200, 206}

\* the handlers dictionary of each operation: the statuses it handles
handlers(op) ==
    CASE op = "get_meta"   -> {200, 404}
      [] op = "put_meta"   -> {200}
      [] op = "del_object" -> {200, 404}
      [] op = "get_object" -> {200, 206}

\* faulty variant: get_meta decodes the headers of a 404 response as well
handler_result_404_decoded(op, status) ==
    CASE op = "get_meta"   -> "metadata"
      [] op = "put_meta"   -> "None"
      [] op = "del_object" -> "None"
      [] op = "get_object" -> "generator"

\* what the handler of a handled status returns
handler_result(op, status) ==
    CASE op = "get_meta" /\ status = 200 -> "metadata"
      [] op = "get_meta" /\ status = 404 -> "None"
      [] op = "put_meta"                 -> "None"
      [] op = "del_object"               -> "None"
      [] op = "get_object"               -> "generator"

\* _do_http from its call to pool.request(): the endpoint is drawn and the
\* request sent, or the draw raises
_do_http(c, op) ==
    /\ ops[c].pc # "request"
    /\ LET d == draw(client, drawn, c)
       IN  /\ client' = d.client
           /\ drawn' = d.drawn
           /\ ops' = [ops EXCEPT ![c] =
                IF d.value = "StopIteration"
                THEN [no_op EXCEPT !.pc = "raised", !.op = op,
                                   !.alive_empty = (client.alive = {}),
                                   !.result = "StopIteration"]
                ELSE [no_op EXCEPT !.pc = "request", !.op = op,
                                   !.alive_empty = (client.alive = {}),
                                   !.endpoint = d.value, !.requests = 1]]
    /\ UNCHANGED <<now, endpoints, afd, is_operational, wake, cb_log, ping_count,
                   clients, reads, probe, construction, healthcheck_threads,
                   fp, writer, diskfile>>

get_meta(c) == _do_http(c, "get_meta")

\* faulty variant: metadata is checked after the endpoint is drawn and the
\* request sent
put_meta_checked_late(c, has_metadata) ==
    /\ ops[c].pc # "request"
    /\ LET d == draw(client, drawn, c)
       IN  /\ client' = d.client
           /\ drawn' = d.drawn
           /\ ops' = [ops EXCEPT ![c] =
                IF d.value = "StopIteration"
                THEN [no_op EXCEPT !.pc = "raised", !.op = "put_meta",
                                   !.alive_empty = (client.alive = {}),
                                   !.result = "StopIteration"]
                ELSE IF has_metadata
                THEN [no_op EXCEPT !.pc = "request", !.op = "put_meta",
                                   !.alive_empty = (client.alive = {}),
                                   !.endpoint = d.value, !.requests = 1]
                ELSE [no_op EXCEPT !.pc = "raised", !.op = "put_meta",
                                   !.alive_empty = (client.alive = {}),
                                   !.endpoint = d.value, !.requests = 1,
                                   !.result = "SproxydHTTPException: no usermd"]]
    /\ UNCHANGED <<now, endpoints, afd, is_operational, wake, cb_log, ping_count,
                   clients, reads, probe, construction, healthcheck_threads,
                   fp, writer, diskfile>>

\* put_meta(name, metadata): has_metadata is FALSE for metadata None
put_meta(c, has_metadata) ==
    IF has_metadata
    THEN _do_http(c, "put_meta")
    ELSE /\ ops[c].pc # "request"
         /\ ops' = [ops EXCEPT ![c] =
                [no_op EXCEPT !.pc = "raised", !.op = "put_meta",
                              !.alive_empty = (client.alive = {}),
                              !.result = "SproxydHTTPException: no usermd"]]
         /\ UNCHANGED <<now, endpoints, client, afd, is_operational, wake, cb_log,
                        ping_count, drawn, clients, reads, probe, construction,
                        healthcheck_threads, fp, writer, diskfile>>

del_object(c) == _do_http(c, "del_object")

get_object(c) == _do_http(c, "get_object")

\* urllib3's response.read() with no amount, on a response not preloaded:
\* the body is read to its end and, the body being exhausted, urllib3 puts
\* the connection back into the pool
response_read == [body |-> "drained", conn |-> "released"]

\* _do_http after handler(response) has returned: drain_connection and
\* response.release_conn() unless the result is a generator
after_handler(result) ==
    IF result # "generator"
    THEN [body |-> "drained", conn |-> "released"]
    ELSE [body |-> "unread", conn |-> "in_use"]

\* _do_http from the return of pool.request() with a response of this status
response(c, status) ==
    /\ ops[c].pc = "request"
    /\ ops' = [ops EXCEPT ![c] =
           IF status \in handlers(ops[c].op)
           THEN [@ EXCEPT !.pc = "returned", !.http_status = status,
                          !.result = handler_result(ops[c].op, status),
                          !.body = after_handler(handler_result(ops[c].op, status)).body,
                          !.conn = after_handler(handler_result(ops[c].op, status)).conn,
                          !.generator = IF handler_result(ops[c].op, status) = "generator"
                                        THEN "open" ELSE None]
           ELSE [@ EXCEPT !.pc = "raised", !.http_status = status,
                          !.result = "SproxydHTTPException",
                          !.body = response_read.body,
                          !.conn = response_read.conn]]
    /\ UNCHANGED <<now, endpoints, client, afd, is_operational, wake, cb_log,
                   ping_count, drawn, clients, reads, probe, construction,
                   healthcheck_threads, fp, writer, diskfile>>

\* faulty variant: the failed request is issued a second time before the
\* error is raised
request_fails_retried(c) ==
    /\ ops[c].pc = "request"
    /\ ops' = [ops EXCEPT ![c] = [@ EXCEPT !.pc = "raised", !.result = "urllib3 error",
                                           !.requests = @ + 1]]
    /\ UNCHANGED <<now, endpoints, client, afd, is_operational, wake, cb_log,
                   ping_count, drawn, clients, reads, probe, construction,
                   healthcheck_threads, fp, writer, diskfile>>

\* _do_http from the return of pool.request() with a 200 response to
\* get_meta whose x-scal-usermd header is empty: pickle.loads raises EOFError
\* in handle_200, which _do_http does not catch
response_undecodable(c) ==
    /\ ops[c].pc = "request"
    /\ ops[c].op = "get_meta"
    /\ ops' = [ops EXCEPT ![c] = [@ EXCEPT !.pc = "raised", !.http_status = 200,
                                           !.result = "EOFError",
                                           !.body = "unread", !.conn = "in_use"]]
    /\ UNCHANGED <<now, endpoints, client, afd, is_operational, wake, cb_log,
                   ping_count, drawn, clients, reads, probe, construction,
                   healthcheck_threads, fp, writer, diskfile>>

\* the consumer calls next() on the generator of get_object
\* (handle_200_or_206): the next chunk of response.stream() is yielded, or
\* the stream is over, release_conn() runs and the generator ends
generator_next(c) ==
    /\ ops[c].pc = "returned"
    /\ ops[c].generator = "open"
    /\ ops' = [ops EXCEPT ![c] =
           IF ops[c].chunks < MaxChunks
           THEN [@ EXCEPT !.chunks = @ + 1, !.body = "partial"]
           ELSE [@ EXCEPT !.generator = "exhausted", !.body = "drained",
                          !.conn = "released"]]
    /\ UNCHANGED <<now, endpoints, client, afd, is_operational, wake, cb_log,
                   ping_count, drawn, clients, reads, probe, construction,
                   healthcheck_threads, fp, writer, diskfile>>

\* the consumer abandons the generator (close() or its collection): not
\* started, it just ends; suspended at its yield, GeneratorExit is raised
\* there and leaves handle_200_or_206 before response.release_conn()
generator_close(c) ==
    /\ ops[c].pc = "returned"
    /\ ops[c].generator = "open"
    /\ ops' = [ops EXCEPT ![c] = [@ EXCEPT !.generator = "closed"]]
    /\ UNCHANGED <<now, endpoints, client, afd, is_operational, wake, cb_log,
                   ping_count, drawn, clients, reads, probe, construction,
                   healthcheck_threads, fp, writer, diskfile>>

\* pool.request() raises: connect or read timeout, connection refused
request_fails(c) ==
    /\ ops[c].pc = "request"
    /\ ops' = [ops EXCEPT ![c] = [@ EXCEPT !.pc = "raised", !.result = "urllib3 error"]]
    /\ UNCHANGED <<now, endpoints, client, afd, is_operational, wake, cb_log,
                   ping_count, drawn, clients, reads, probe, construction,
                   healthcheck_threads, fp, writer, diskfile>>

-----------------------------------------------------------------------------
(* sproxyd_client.py, exceptions.py: the exception of an unhandled status.  *)
(* Strings that the code takes apart are sequences of tokens.               *)

\* the urlparse results given as endpoints: B has no port in its netloc
EndpointUrl ==
    [e \in Universe |->
        [scheme |-> "http",
         netloc |-> CASE e = "A" -> <<"hostA", ":", "81">>
                      [] e = "B" -> <<"hostB">>
                      [] e = "C" -> <<"hostC", ":", "4244">>,
         path   |-> <<"/", "proxy", "/", "chord", "/">>]]

\* the response of the endpoint: its status line
HTTPResponse(status) ==
    [status |-> status,
     reason |-> CASE status = 200 -> "OK"
                  [] status = 206 -> "Partial Content"
                  [] status = 404 -> "Not Found"
                  [] status = 500 -> "Internal Server Error"]

\* s.rsplit(sep, 1)
rsplit1(s, sep) ==
    LET I == {i \in 1..Len(s) : s[i] = sep}
    IN  IF I = {} THEN <<s>>
        ELSE LET i == CHOOSE i \in I : \A j \in I : j <= i
             IN  <<SubSeq(s, 1, i - 1), SubSeq(s, i + 1, Len(s))>>

\* s.strip(ch)
RECURSIVE strip(_, _)
strip(s, ch) ==
    IF s = <<>> THEN s
    ELSE IF Head(s) = ch THEN strip(Tail(s), ch)
    ELSE IF s[Len(s)] = ch THEN strip(SubSeq(s, 1, Len(s) - 1), ch)
    ELSE s

\* _do_http: host and port of the endpoint drawn
host_port(endpoint) ==
    LET parts == rsplit1(EndpointUrl[endpoint].netloc, ":")
    IN  IF Len(parts) = 1 THEN [host |-> parts[1], port |-> <<>>]   \* port = None
        ELSE [host |-> parts[1], port |-> parts[2]]

\* _do_http: '/%s/%s' % (endpoint.path.strip('/'), urllib.quote(path))
safe_path(endpoint, path) ==
    <<"/">> \o strip(EndpointUrl[endpoint].path, "/") \o <<"/", path>>

\* exceptions.SproxydHTTPException.__init__
SproxydHTTPException(msg, ipaddr, port, path, http_status, http_reason) ==
    [msg |-> msg, ipaddr |-> ipaddr, port |-> port, base_path |-> path,
     http_status |-> http_status, http_reason |-> http_reason]

\* faulty variant: the reason of the response is left out
unexpected_http_status_no_reason(caller_name, endpoint, path, resp) ==
    SproxydHTTPException(caller_name, host_port(endpoint).host,
                         host_port(endpoint).port, safe_path(endpoint, path),
                         resp.status, "")

\* _do_http.unexpected_http_status: the exception raised
unexpected_http_status(caller_name, endpoint, path, resp) ==
    SproxydHTTPException(caller_name, host_port(endpoint).host,
                         host_port(endpoint).port, safe_path(endpoint, path),
                         resp.status, resp.reason)

\* the exception an operation has raised for the response it received
raised_exception(o) ==
    unexpected_http_status(o.op, o.endpoint, "name", HTTPResponse(o.http_status))

-----------------------------------------------------------------------------
(* sproxyd_client.py, utils.py: the health check.  A line of the            *)
(* configuration sproxyd answers is the key and the value BY_PATH_ENABLED_RE *)
(* would find in it; probe[e] is the last check of endpoint e: what the     *)
(* request gave and what _ping returned.                                    *)

ConfLines ==
    {[key |-> "by_path_enabled", value |-> "1"],
     [key |-> "by_path_enabled", value |-> "True"],
     [key |-> "by_path_enabled", value |-> "0"],
     [key |-> "by_path_service_id", value |-> "0xC0"]}

\* conf.data: the bodies of at most two lines
ConfData == {<<>>} \cup {<<l>> : l \in ConfLines}
                   \cup {<<l1, l2>> : l1 \in ConfLines, l2 \in ConfLines}

\* what pool_manager.request('GET', url) gives: a response of any status, or
\* an exception
PingOutcomes ==
    [exc : {None}, status : {200, 204, 404, 500}, data : ConfData]
      \cup [exc : {"IOError", "HTTPError", "Exception"}, status : {0}, data : {<<>>}]

no_probe == [exc |-> None, status |-> 0, data |-> <<>>, result |-> FALSE]

\* re.IGNORECASE on the values the lines hold
lower(v) == IF v = "True" THEN "true" ELSE v

\* BY_PATH_ENABLED_RE.match(line)
BY_PATH_ENABLED_RE_match(line) ==
    line.key = "by_path_enabled" /\ lower(line.value) \in {"1", "true"}

\* utils.is_sproxyd_conf_valid: True, or the exception raised
is_sproxyd_conf_valid(conf) ==
    IF \E i \in 1..Len(conf) : BY_PATH_ENABLED_RE_match(conf[i])
    THEN "True" ELSE "SproxydConfException"

\* SproxydClient._ping(url) when the request gives r: the value returned
ping_result(r) ==
    IF r.exc # None THEN FALSE
    ELSE is_sproxyd_conf_valid(r.data) = "True"

\* SproxydClient._ping for endpoint e
_ping(e, r) ==
    /\ e \in endpoints
    /\ probe' = [probe EXCEPT ![e] =
                    [exc |-> r.exc, status |-> r.status, data |-> r.data,
                     result |-> ping_result(r)]]
    /\ UNCHANGED <<now, endpoints, client, afd, is_operational, wake, cb_log,
                   ping_count, drawn, ops, clients, reads, construction,
                   healthcheck_threads, fp, writer, diskfile>>

-----------------------------------------------------------------------------
(* utils.py: monitoring_loop *)

\* faulty variant: on_down at every failed probe of a dead endpoint
calls_on_down_every_tick(ok, dead, is_op) ==
    ~ok /\ dead

\* faulty variant: "if" instead of "elif"
calls_on_down_if(ok, dead, is_op) ==
    dead /\ is_op \in {"True", None}

\* faulty variant: no on_down from the initial state
calls_on_down_not_initially(ok, dead, is_op) ==
    ~ok /\ dead /\ is_op = "True"

calls_on_down(ok, dead, is_op) ==
    ~ok /\ dead /\ is_op \in {"True", None}

\* faulty variant: on_up at every iteration that finds the endpoint alive
calls_on_up_every_tick(alive_, is_op) ==
    alive_

calls_on_up(alive_, is_op) ==
    alive_ /\ is_op \in {"False", None}

\* faulty variant: is_operational is not set after on_up
iteration_up_flag_not_set(cl, is_op, e, ok, dead, alive_, o1, o2) ==
    LET down == calls_on_down(ok, dead, is_op)
        op1  == IF down THEN "False" ELSE is_op
        cl1  == IF down THEN _on_sproxyd_down(cl, e, o1) ELSE cl
        up   == calls_on_up(alive_, op1)
        cl2  == IF up THEN _on_sproxyd_up(cl1, e, o2) ELSE cl1
    IN  [client |-> cl2,
         is_operational |-> op1,
         cbs |-> (IF down THEN <<"down">> ELSE <<>>) \o (IF up THEN <<"up">> ELSE <<>>)]

\* The body of one iteration for endpoint e, after ping() returned ok and with
\* the verdicts afd.isDead() and afd.isAlive() would give: the callbacks
\* invoked (on_down = _on_sproxyd_down(e), on_up = _on_sproxyd_up(e)), the
\* flag and the client afterwards.  o1 and o2 are the iteration orders of the
\* sets the callbacks build.
iteration(cl, is_op, e, ok, dead, alive_, o1, o2) ==
    LET down == calls_on_down(ok, dead, is_op)
        op1  == IF down THEN "False" ELSE is_op
        cl1  == IF down THEN _on_sproxyd_down(cl, e, o1) ELSE cl
        up   == calls_on_up(alive_, op1)
        op2  == IF up THEN "True" ELSE op1
        cl2  == IF up THEN _on_sproxyd_up(cl1, e, o2) ELSE cl1
    IN  [client |-> cl2,
         is_operational |-> op2,
         cbs |-> (IF down THEN <<"down">> ELSE <<>>) \o (IF up THEN <<"up">> ELSE <<>>)]

\* the iteration orders the sets built by the callbacks of an iteration may
\* have (<<>> for a callback that is not invoked)
DownOrders(cl, is_op, e, ok, dead, alive_) ==
    IF "down" \in Range(iteration(cl, is_op, e, ok, dead, alive_, <<>>, <<>>).cbs)
    THEN Orders(_on_sproxyd_down(cl, e, <<>>).alive) ELSE {<<>>}

UpOrders(cl, is_op, e, ok, dead, alive_) ==
    LET dry == iteration(cl, is_op, e, ok, dead, alive_, <<>>, <<>>)
    IN  IF "up" \in Range(dry.cbs) THEN Orders(dry.client.alive) ELSE {<<>>}

\* One iteration of the loop of endpoint e: from the return of ping() to
\* eventlet.sleep(1).
monitoring_loop(e) ==
    /\ e \in endpoints
    /\ now >= wake[e]
    /\ \E ok \in BOOLEAN :
         LET a1 == IF ok THEN heartbeat(afd[e], now) ELSE afd[e]
             dead == isDead(a1, now)
             alive_ == isAlive(a1, now)
         IN  \E o1 \in DownOrders(client, is_operational[e], e, ok, dead, alive_),
                o2 \in UpOrders(client, is_operational[e], e, ok, dead, alive_) :
           LET it == iteration(client, is_operational[e], e, ok, dead, alive_, o1, o2)
           IN
             /\ afd' = [afd EXCEPT ![e] = a1]
             /\ is_operational' = [is_operational EXCEPT ![e] = it.is_operational]
             /\ client' = it.client
             /\ cb_log' = [cb_log EXCEPT ![e] = @ \o it.cbs]
             /\ ping_count' = [ping_count EXCEPT ![e] =
                                 IF ok THEN [@ EXCEPT !.ok = @ + 1]
                                       ELSE [@ EXCEPT !.ko = @ + 1]]
             /\ drawn' = IF it.cbs # <<>> THEN <<>> ELSE drawn
    /\ wake' = [wake EXCEPT ![e] = now + 1]
    /\ UNCHANGED <<now, endpoints, ops, clients, reads, probe, construction,
                   healthcheck_threads, fp, writer, diskfile>>

\* The same iteration with the detector left open: whatever the heartbeats so
\* far, isAlive() answers alive_ and isDead() its negation.
health_event(e) ==
    /\ e \in endpoints
    /\ \E ok \in BOOLEAN, alive_ \in BOOLEAN :
         \E o1 \in DownOrders(client, is_operational[e], e, ok, ~alive_, alive_),
            o2 \in UpOrders(client, is_operational[e], e, ok, ~alive_, alive_) :
         LET it == iteration(client, is_operational[e], e, ok, ~alive_, alive_, o1, o2)
         IN  /\ it.cbs # <<>>
             /\ is_operational' = [is_operational EXCEPT ![e] = it.is_operational]
             /\ client' = it.client
             /\ drawn' = <<>>
    /\ UNCHANGED <<now, endpoints, afd, wake, cb_log, ping_count, ops,
                   clients, reads, probe, construction, healthcheck_threads,
                   fp, writer, diskfile>>

\* the clock
Advance ==
    /\ now < MaxTime
    /\ now' = now + 1
    /\ UNCHANGED <<endpoints, client, afd, is_operational, wake, cb_log,
                   ping_count, drawn, ops, clients, reads, probe, construction,
                   healthcheck_threads, fp, writer, diskfile>>

-----------------------------------------------------------------------------
(* sproxyd_client.py, utils.py: the green threads of the monitoring loops   *)
(* and SproxydClient.__del__                                                *)

\* what the request of a health check does, one of each kind: a valid
\* configuration, an invalid one, a network error, an unexpected error
LoopOutcomes ==
    {[exc |-> None, status |-> 200,
      data |-> <<[key |-> "by_path_enabled", value |-> "1"]>>],
     [exc |-> None, status |-> 200, data |-> <<>>],
     [exc |-> "IOError", status |-> 0, data |-> <<>>],
     [exc |-> "Exception", status |-> 0, data |-> <<>>]}

\* thread.kill(): greenlet.GreenletExit (a BaseException) is raised in the
\* thread, where it is suspended
GreenletExit == [exc |-> "GreenletExit", status |-> 0, data |-> <<>>]

\* the exception raised inside the try block of _ping, None if there is none
_ping_raised(r) ==
    IF r.exc # None THEN r.exc
    ELSE IF is_sproxyd_conf_valid(r.data) = "True" THEN None
    ELSE is_sproxyd_conf_valid(r.data)

\* faulty variant: without the bare except clause
_ping_catches_named_only(exc) ==
    \/ exc \in {"IOError", "HTTPError"}
    \/ exc = "SproxydConfException"

\* the except clauses of _ping: the network errors, SproxydConfException,
\* and "except:", which catches every exception
_ping_catches(exc) ==
    \/ exc \in {"IOError", "HTTPError"}
    \/ exc = "SproxydConfException"
    \/ TRUE

\* The thread of endpoint e is resumed in the request of ping(), which ends
\* with r: _ping returns and the iteration goes on to eventlet.sleep(1), or
\* the exception leaves _ping and monitoring_loop and the thread is dead.
\* kill is the thread's kill afterwards.  The detector is left open as in
\* health_event.
resume(e, r, kill) ==
    /\ probe' = [probe EXCEPT ![e] =
                    [exc |-> r.exc, status |-> r.status, data |-> r.data,
                     result |-> ping_result(r)]]
    /\ IF _ping_raised(r) # None /\ ~_ping_catches(_ping_raised(r))
       THEN /\ healthcheck_threads' = [healthcheck_threads EXCEPT ![e] =
                                          [@ EXCEPT !.dead = TRUE, !.kill = kill]]
            /\ UNCHANGED <<client, is_operational, drawn>>
       ELSE \E alive_ \in BOOLEAN :
            \E o1 \in DownOrders(client, is_operational[e], e, ping_result(r), ~alive_, alive_),
               o2 \in UpOrders(client, is_operational[e], e, ping_result(r), ~alive_, alive_) :
            LET it == iteration(client, is_operational[e], e, ping_result(r),
                                ~alive_, alive_, o1, o2)
            IN  /\ is_operational' = [is_operational EXCEPT ![e] = it.is_operational]
                /\ client' = it.client
                /\ drawn' = IF it.cbs # <<>> THEN <<>> ELSE drawn
                /\ healthcheck_threads' = [healthcheck_threads EXCEPT ![e] =
                                              [@ EXCEPT !.at = "sleep", !.kill = kill]]
    /\ UNCHANGED <<now, endpoints, afd, wake, cb_log, ping_count, ops, clients,
                   reads, construction, fp, writer, diskfile>>

\* monitoring_loop of endpoint e: eventlet.sleep(1) returns (or the thread
\* starts) and ping() sends its request
monitoring_loop_pings(e) ==
    /\ healthcheck_threads[e].spawned > 0
    /\ ~healthcheck_threads[e].dead
    /\ healthcheck_threads[e].at = "sleep"
    /\ healthcheck_threads' = [healthcheck_threads EXCEPT ![e].at = "ping"]
    /\ UNCHANGED <<sproxyd_vars, fp, writer, diskfile>>

\* monitoring_loop of endpoint e: the request of ping() ends with r
monitoring_loop_resumes(e, r) ==
    /\ healthcheck_threads[e].spawned > 0
    /\ ~healthcheck_threads[e].dead
    /\ healthcheck_threads[e].at = "ping"
    /\ resume(e, r, healthcheck_threads[e].kill)

\* SproxydClient.__del__: one iteration of its loop, thread.kill() for the
\* thread of endpoint e.  raises: kill() raises, which is logged.  Else
\* GreenletExit is raised in the thread: at eventlet.sleep(1) it leaves
\* monitoring_loop, in the request of ping() it is raised inside the try
\* block of _ping.
SproxydClient_del(e, raises) ==
    /\ construction.pc = "returned"
    /\ healthcheck_threads[e].spawned > 0
    /\ healthcheck_threads[e].kill = "none"
    /\ \/ /\ raises
          /\ healthcheck_threads' = [healthcheck_threads EXCEPT ![e].kill = "raised"]
          /\ UNCHANGED <<sproxyd_vars, fp, writer, diskfile>>
       \/ /\ ~raises
          /\ healthcheck_threads[e].dead \/ healthcheck_threads[e].at = "sleep"
          /\ healthcheck_threads' = [healthcheck_threads EXCEPT ![e] =
                                        [@ EXCEPT !.dead = TRUE, !.kill = "killed"]]
          /\ UNCHANGED <<sproxyd_vars, fp, writer, diskfile>>
       \/ /\ ~raises
          /\ ~healthcheck_threads[e].dead /\ healthcheck_threads[e].at = "ping"
          /\ resume(e, GreenletExit, "killed")

-----------------------------------------------------------------------------
(* http_utils.py: SomewhatBufferedFileObject *)

(* fp._rbuf is <<>> while it is None, else <<b>> with b the bytes the     *)
(* StringIO holds; fp.sock is what the socket has still to deliver, EOF     *)
(* after it.  called, raised, value and lines are the last call, what it    *)
(* raised and what it returned; calls counts the calls and got the calls of *)
(* get_buffered that returned; consumed is all the read methods returned.   *)

Bytes == {"a", "nl"}

\* the data of a response: every sequence of at most MaxBuffered bytes
Data == UNION {[1..n -> Bytes] : n \in 0..MaxBuffered}

fileobject(buf, sock) ==
    [_rbuf |-> <<buf>>, sock |-> sock, called |-> "none", raised |-> None,
     value |-> <<>>, lines |-> <<>>, calls |-> 0, got |-> 0, consumed |-> <<>>]

no_fp == [fileobject(<<>>, <<>>) EXCEPT !._rbuf = <<>>]

\* a call that raises exc
fp_raises(f, method, exc) ==
    [f EXCEPT !.called = method, !.raised = exc, !.value = <<>>, !.lines = <<>>,
              !.calls = @ + 1]

\* a call that returns value and leaves buf in _rbuf and sock in the socket
fp_returns(f, method, value, buf, sock) ==
    [f EXCEPT !.called = method, !.raised = None, !.value = value, !.lines = <<>>,
              !.calls = @ + 1, !._rbuf = <<buf>>, !.sock = sock,
              !.consumed = @ \o value]

\* s.find('\n') + 1
find_nl(s) ==
    IF \E i \in 1..Len(s) : s[i] = "nl"
    THEN CHOOSE i \in 1..Len(s) : s[i] = "nl" /\ \A j \in 1..(i - 1) : s[j] # "nl"
    ELSE 0

\* faulty variant: the buffer is left in place
get_buffered_keeps_buffer(f) ==
    IF f._rbuf = <<>> THEN fp_raises(f, "get_buffered", "InvariantViolation")
    ELSE [f EXCEPT !.called = "get_buffered", !.raised = None, !.value = f._rbuf[1],
                   !.lines = <<>>, !.calls = @ + 1, !.got = @ + 1]

get_buffered(f) ==
    IF f._rbuf = <<>> THEN fp_raises(f, "get_buffered", "InvariantViolation")
    ELSE [f EXCEPT !.called = "get_buffered", !.raised = None, !.value = f._rbuf[1],
                   !.lines = <<>>, !.calls = @ + 1, !.got = @ + 1, !._rbuf = <<>>]

\* socket._fileobject.read(self, size): size < 0 reads until EOF, else at
\* most size bytes, from the buffer first
_fileobject_read(f, size) ==
    LET buf == f._rbuf[1]
        n   == IF size < 0 THEN Len(buf) + Len(f.sock) ELSE size
        fromsock == IF n > Len(buf)
                    THEN (IF n - Len(buf) < Len(f.sock) THEN n - Len(buf) ELSE Len(f.sock))
                    ELSE 0
    IN  IF n <= Len(buf)
        THEN fp_returns(f, "read", SubSeq(buf, 1, n), SubSeq(buf, n + 1, Len(buf)), f.sock)
        ELSE fp_returns(f, "read", buf \o SubSeq(f.sock, 1, fromsock), <<>>,
                     SubSeq(f.sock, fromsock + 1, Len(f.sock)))

read(f, size) ==
    IF f._rbuf = <<>> THEN fp_raises(f, "read", "InvariantViolation")
    ELSE _fileobject_read(f, size)

\* socket._fileobject.readline(self): the line in the buffer, or recv() of
\* chunks until one has a newline or EOF; received is how many bytes the
\* chunks have in all, and those after the newline stay in the buffer
_fileobject_readline(f, method, received) ==
    LET buf == f._rbuf[1]
        got == buf \o SubSeq(f.sock, 1, received)
        nl  == find_nl(got)
        end == IF nl = 0 THEN Len(got) ELSE nl
    IN  fp_returns(f, method, SubSeq(got, 1, end), SubSeq(got, end + 1, Len(got)),
                SubSeq(f.sock, received + 1, Len(f.sock)))

\* how many bytes readline may receive: none if the buffer has a line, else
\* up to a chunk with a newline, or all there is
receivable(f) ==
    IF f._rbuf = <<>> \/ find_nl(f._rbuf[1]) > 0 THEN {0}
    ELSE IF find_nl(f.sock) = 0 THEN {Len(f.sock)}
    ELSE find_nl(f.sock)..Len(f.sock)

readline(f, received) ==
    IF f._rbuf = <<>> THEN fp_raises(f, "readline", "InvariantViolation")
    ELSE _fileobject_readline(f, "readline", received)

\* socket._fileobject.next(self)
_fileobject_next(f, received) ==
    LET line == _fileobject_readline(f, "next", received)
    IN  IF line.value = <<>> THEN [line EXCEPT !.raised = "StopIteration"] ELSE line

next(f, received) ==
    IF f._rbuf = <<>> THEN fp_raises(f, "next", "InvariantViolation")
    ELSE _fileobject_next(f, received)

\* the lines of s
RECURSIVE splitlines(_)
splitlines(s) ==
    IF s = <<>> THEN <<>>
    ELSE LET nl  == find_nl(s)
             end == IF nl = 0 THEN Len(s) ELSE nl
         IN  <<SubSeq(s, 1, end)>> \o splitlines(SubSeq(s, end + 1, Len(s)))

\* socket._fileobject.readlines(self, 0): readline() until it returns ''
_fileobject_readlines(f) ==
    [fp_returns(f, "readlines", f._rbuf[1] \o f.sock, <<>>, <<>>)
        EXCEPT !.value = <<>>, !.lines = splitlines(f._rbuf[1] \o f.sock)]

readlines(f) ==
    IF f._rbuf = <<>> THEN fp_raises(f, "readlines", "InvariantViolation")
    ELSE _fileobject_readlines(f)

\* a call of one of the methods of the file object
fp_call ==
    /\ fp.calls < MaxCalls
    /\ \/ fp' = get_buffered(fp)
       \/ \E size \in {-1, 1, 2} : fp' = read(fp, size)
       \/ \E received \in receivable(fp) : fp' = readline(fp, received)
       \/ \E received \in receivable(fp) : fp' = next(fp, received)
       \/ fp' = readlines(fp)
    /\ UNCHANGED <<sproxyd_vars, healthcheck_threads, writer, diskfile>>

-----------------------------------------------------------------------------
(* diskfile.py: DiskFileWriter, DiskFile *)

(* writer is a DiskFileWriter: pc is where it is ("none": not built,       *)
(* "writing", "getresponse": put waits for the answer to the content PUT,   *)
(* "put_meta": put waits for put_meta, "returned" and "raised": put is      *)
(* over); conn is its connection ("open", "released" by _release_conn(),    *)
(* "closed" by close(), "close_raised" when close() raised); chunks are the *)
(* lengths of the chunks written, finalized is whether the last chunk       *)
(* '0\r\n\r\n' was sent, status the status of the answer (0: none),         *)
(* put_meta_calls how often put_meta was called, logged how many exceptions *)
(* were logged, raised what put raised.                                     *)

no_writer ==
    [pc |-> "none", conn |-> "none", chunks |-> <<>>, _upload_size |-> 0,
     finalized |-> FALSE, status |-> 0, put_meta_calls |-> 0, logged |-> 0,
     raised |-> None]

\* DiskFileWriter.__init__ with a write client that gives a connection
DiskFileWriter == [no_writer EXCEPT !.pc = "writing", !.conn = "open"]

\* what getresponse() and read() give: an answer of any status, or an
\* exception
PutAnswers ==
    [exc : {None}, status : Statuses] \cup [exc : {"IOError"}, status : {0}]

\* DiskFileWriter.write(chunk) for a chunk of n bytes
DiskFileWriter_write(n) ==
    /\ writer.pc = "writing"
    /\ writer._upload_size + n <= MaxUpload
    /\ writer' = [writer EXCEPT !.chunks = Append(@, n), !._upload_size = @ + n]
    /\ UNCHANGED <<sproxyd_vars, healthcheck_threads, fp, diskfile>>

\* DiskFileWriter.put: self._conn.send('0\r\n\r\n'), which is outside the
\* try block
DiskFileWriter_put(send_raises) ==
    /\ writer.pc = "writing"
    /\ writer' = IF send_raises
                 THEN [writer EXCEPT !.pc = "raised", !.raised = "IOError"]
                 ELSE [writer EXCEPT !.pc = "getresponse", !.finalized = TRUE]
    /\ UNCHANGED <<sproxyd_vars, healthcheck_threads, fp, diskfile>>

\* faulty variant: the status of the answer is not looked at
put_getresponse_any_status(w, answer, close_raises) ==
    IF answer.exc # None
    THEN [w EXCEPT !.pc = "raised",
                   !.conn = IF close_raises THEN "close_raised" ELSE "closed",
                   !.logged = IF close_raises THEN @ + 1 ELSE @,
                   !.raised = IF close_raises THEN "Exception" ELSE answer.exc]
    ELSE [w EXCEPT !.pc = "put_meta", !.status = answer.status, !.conn = "released",
                   !.put_meta_calls = @ + 1]

\* DiskFileWriter.put from getresponse() to the call of put_meta.  The bare
\* raise of the handler re-raises the exception handled last, which is the
\* one of close() if close() raised.
put_getresponse(w, answer, close_raises) ==
    IF answer.exc # None \/ answer.status # 200
    THEN [w EXCEPT !.pc = "raised", !.status = answer.status,
                   !.conn = IF close_raises THEN "close_raised" ELSE "closed",
                   !.logged = IF close_raises THEN @ + 1 ELSE @,
                   !.raised = IF close_raises THEN "Exception"
                              ELSE IF answer.exc # None THEN answer.exc
                              ELSE "SproxydHTTPException"]
    ELSE [w EXCEPT !.pc = "put_meta", !.status = answer.status, !.conn = "released",
                   !.put_meta_calls = @ + 1]

DiskFileWriter_put_getresponse(answer, close_raises) ==
    /\ writer.pc = "getresponse"
    /\ writer' = put_getresponse(writer, answer, close_raises)
    /\ UNCHANGED <<sproxyd_vars, healthcheck_threads, fp, diskfile>>

\* DiskFileWriter.put: get_write_client().put_meta(...) returns, or raises
DiskFileWriter_put_meta(exc) ==
    /\ writer.pc = "put_meta"
    /\ writer' = IF exc = None THEN [writer EXCEPT !.pc = "returned"]
                 ELSE [writer EXCEPT !.pc = "raised", !.raised = exc]
    /\ UNCHANGED <<sproxyd_vars, healthcheck_threads, fp, diskfile>>

\* diskfile is a DiskFile: _metadata is <<>> while it is None, else <<m>>;
\* called, raised and calls are its last call, what it raised, and how many
\* calls were made.  no_diskfile is the DiskFile __init__ returns.
no_diskfile == [_metadata |-> <<>>, called |-> "none", raised |-> None, calls |-> 0]

\* the value of X-Delete-At in a metadata dictionary, 0 when it has no such
\* key
XDeleteAts == 0..MaxDeleteAt

\* what get_meta returns for an object: its 'df' dictionary, and its 'mf'
\* dictionary (<<>> when it is empty)
Metadatas ==
    [df : [x_delete_at : XDeleteAts],
     mf : {<<>>} \cup {<<m>> : m \in [x_delete_at : XDeleteAts]}]

\* DiskFile.merge_df_mf_metadata, for X-Delete-At, which is no system
\* metadata: the one of 'mf' unless 'mf' is empty
merge_df_mf_metadata(df_md_source, mf_md_source) ==
    IF mf_md_source = <<>> THEN df_md_source ELSE mf_md_source[1]

-----------------------------------------------------------------------------
(* http_utils.py: ClientCollection.  clients[k] is the routing state of the *)
(* SproxydClient named k.  reads is the try_read call in progress: pc is    *)
(* "idle", "read" (fn runs on a read client), "write" (fn runs on a write   *)
(* client), "returned" or "raised"; calls lists the invocations of fn, each *)
(* with its client and the status its endpoint answered; result is what     *)
(* try_read returned or the exception it raised.                            *)

read_clients == <<"r1", "r2">>
write_clients == <<"w1", "w2">>

ClientNames == Range(read_clients) \cup Range(write_clients)

\* the endpoints each client of the collection was constructed with
client_endpoints ==
    [k \in ClientNames |-> IF k \in {"r1", "w1"} THEN {"A", "B"} ELSE {"C"}]

\* the functions DiskFile and DiskFileReader give to try_read
ReadOperations == {"get_meta", "get_object"}

\* no response: pool.request() raised
NoResponse == 0

NoClientAvailable == "NoClientAvailable"

no_read == [pc |-> "idle", op |-> None, calls |-> <<>>, result |-> None,
            http_status |-> NoResponse]

\* faulty variant: the last client with alive endpoints
RECURSIVE _get_client_last(_)
_get_client_last(cls) ==
    IF cls = <<>> THEN NoClientAvailable
    ELSE IF has_alive_endpoints(clients[cls[Len(cls)]]) THEN cls[Len(cls)]
    ELSE _get_client_last(SubSeq(cls, 1, Len(cls) - 1))

RECURSIVE _get_client(_)
_get_client(cls) ==
    IF cls = <<>> THEN NoClientAvailable
    ELSE IF has_alive_endpoints(clients[Head(cls)]) THEN Head(cls)
    ELSE _get_client(Tail(cls))

get_read_client == _get_client(read_clients)

get_write_client == _get_client(write_clients)

\* fn(client) when the endpoint answered status: client.get_meta(name) or
\* client.get_object(name), through _do_http
fn_outcome(op, status) ==
    IF status = NoResponse
    THEN [pc |-> "raised", result |-> "urllib3 error", http_status |-> NoResponse]
    ELSE IF status \in handlers(op)
    THEN [pc |-> "returned", result |-> handler_result(op, status),
          http_status |-> status]
    ELSE [pc |-> "raised", result |-> "SproxydHTTPException", http_status |-> status]

\* faulty variant: NoClientAvailable of get_read_client is not caught
first_client_read_only == get_read_client

\* try_read up to its first call of fn: the client fn is called on
first_client ==
    IF get_read_client # NoClientAvailable THEN get_read_client ELSE get_write_client

\* faulty variant: no fallback
falls_back_never(o) == FALSE

\* faulty variant: fallback on every SproxydHTTPException
falls_back_any_status(o) == o.result = "SproxydHTTPException"

\* try_read's except clause: whether what fn raised on the read client is
\* swallowed
falls_back(o) == o.result = "SproxydHTTPException" /\ o.http_status = 404

\* fn(k) up to pool.request(): the call recorded and the cursor of k advanced
call_fn(pc, op, calls, k) ==
    /\ reads' = [no_read EXCEPT !.pc = pc, !.op = op,
                                !.calls = Append(calls, [client |-> k, status |-> NoResponse])]
    /\ clients' = [clients EXCEPT ![k] = draw(@, <<>>, "c1").client]

\* try_read(fn) from its call to the first pool.request() of fn
try_read(op) ==
    /\ reads.pc \notin {"read", "write"}
    /\ LET k == first_client
       IN  IF k = NoClientAvailable
           THEN /\ reads' = [no_read EXCEPT !.pc = "raised", !.op = op,
                                            !.result = NoClientAvailable]
                /\ UNCHANGED clients
           ELSE call_fn(IF k = get_read_client THEN "read" ELSE "write", op, <<>>, k)
    /\ UNCHANGED <<now, endpoints, client, afd, is_operational, wake, cb_log,
                   ping_count, drawn, ops, probe, construction,
                   healthcheck_threads, fp, writer, diskfile>>

\* try_read from the return of pool.request() in fn, with a response of this
\* status or none, to the end of try_read or to the pool.request() of the
\* second call of fn
try_read_resumes(status) ==
    /\ reads.pc \in {"read", "write"}
    /\ LET o == fn_outcome(reads.op, status)
           calls == [reads.calls EXCEPT ![Len(reads.calls)].status = status]
           k == get_write_client
       IN  IF reads.pc = "read" /\ falls_back(o)
           THEN IF k = NoClientAvailable
                THEN /\ reads' = [reads EXCEPT !.pc = "raised", !.calls = calls,
                                               !.result = NoClientAvailable]
                     /\ UNCHANGED clients
                ELSE call_fn("write", reads.op, calls, k)
           ELSE /\ reads' = [reads EXCEPT !.pc = o.pc, !.calls = calls,
                                          !.result = o.result,
                                          !.http_status = o.http_status]
                /\ UNCHANGED clients
    /\ UNCHANGED <<now, endpoints, client, afd, is_operational, wake, cb_log,
                   ping_count, drawn, ops, probe, construction,
                   healthcheck_threads, fp, writer, diskfile>>

\* a callback of the monitoring loop of endpoint e of client k
client_callback(k) ==
    /\ \E e \in client_endpoints[k] :
         \/ \E o \in Orders(clients[k].alive \ {e}) :
              clients' = [clients EXCEPT ![k] = _on_sproxyd_down(@, e, o)]
         \/ \E o \in Orders(clients[k].alive \cup {e}) :
              clients' = [clients EXCEPT ![k] = _on_sproxyd_up(@, e, o)]
    /\ UNCHANGED <<now, endpoints, client, afd, is_operational, wake, cb_log,
                   ping_count, drawn, ops, reads, probe, construction,
                   healthcheck_threads, fp, writer, diskfile>>

\* diskfile.py: what DiskFile.open() does with a finished
\* try_read(lambda client: client.get_meta(name))
DiskFile_open(r) ==
    IF r.pc = "raised"
    THEN (IF r.result = "EOFError" THEN "DiskFileDeleted" ELSE r.result)
    ELSE IF r.result = "None" THEN "DiskFileDeleted"
    ELSE "self"

\* what try_read(lambda client: client.get_meta(name)) can end with: the
\* result of get_meta for any answer, or EOFError for metadata that do not
\* decode
TryReadResults ==
    {fn_outcome("get_meta", status) : status \in Statuses \cup {NoResponse}}
      \cup {[pc |-> "raised", result |-> "EOFError", http_status |-> 200]}

\* faulty variant: _metadata is assigned after the check of X-Delete-At
open_assigns_after_check(df, r, metadata, current_time) ==
    IF DiskFile_open(r) # "self"
    THEN [df EXCEPT !.called = "open", !.raised = DiskFile_open(r), !.calls = @ + 1]
    ELSE LET merged == merge_df_mf_metadata(metadata.df, metadata.mf)
             expired == merged.x_delete_at # 0 /\ merged.x_delete_at <= current_time
         IN  [df EXCEPT !.called = "open", !.calls = @ + 1,
                        !._metadata = IF expired THEN @
                                      ELSE <<[x_delete_at |-> merged.x_delete_at,
                                              df |-> metadata.df, mf |-> metadata.mf]>>,
                        !.raised = IF expired THEN "DiskFileExpired" ELSE None]

\* DiskFile.open(current_time) when try_read ends with r, metadata being
\* what get_meta returns if it returns a dictionary
open(df, r, metadata, current_time) ==
    IF DiskFile_open(r) # "self"
    THEN [df EXCEPT !.called = "open", !.raised = DiskFile_open(r), !.calls = @ + 1]
    ELSE LET merged == merge_df_mf_metadata(metadata.df, metadata.mf)
             expired == merged.x_delete_at # 0 /\ merged.x_delete_at <= current_time
         IN  [df EXCEPT !.called = "open", !.calls = @ + 1,
                        !._metadata = <<[x_delete_at |-> merged.x_delete_at,
                                         df |-> metadata.df, mf |-> metadata.mf]>>,
                        !.raised = IF expired THEN "DiskFileExpired" ELSE None]

\* DiskFile.__enter__
DiskFile_enter(df) ==
    [df EXCEPT !.called = "__enter__", !.calls = @ + 1,
               !.raised = IF df._metadata = <<>> THEN "DiskFileNotOpen" ELSE None]

\* DiskFile.get_metadata
get_metadata(df) ==
    [df EXCEPT !.called = "get_metadata", !.calls = @ + 1,
               !.raised = IF df._metadata = <<>> THEN "DiskFileNotOpen" ELSE None]

\* a call of open, __enter__ or get_metadata on the DiskFile
DiskFile_call ==
    /\ diskfile.calls < MaxDiskFileCalls
    /\ \/ \E r \in TryReadResults, metadata \in Metadatas, current_time \in 1..MaxDeleteAt :
            diskfile' = open(diskfile, r, metadata, current_time)
       \/ diskfile' = DiskFile_enter(diskfile)
       \/ diskfile' = get_metadata(diskfile)
    /\ UNCHANGED <<sproxyd_vars, healthcheck_threads, fp, writer>>

\* a process that has built no DiskFile, DiskFileWriter or HTTP response
NoDiskFile ==
    /\ fp = no_fp
    /\ writer = no_writer
    /\ diskfile = no_diskfile

\* a process that has built no ClientCollection
NoClientCollection ==
    /\ clients = <<>>
    /\ reads = no_read
    /\ NoDiskFile

\* ClientCollection.__init__ over clients just constructed
ClientCollectionInit ==
    /\ \E os \in [ClientNames -> Orders({"A", "B"}) \cup Orders({"C"})] :
         /\ \A k \in ClientNames : os[k] \in Orders(client_endpoints[k])
         /\ clients = [k \in ClientNames |->
                          [alive |-> client_endpoints[k],
                           cycle |-> itertools_cycle(client_endpoints[k], os[k])]]
    /\ reads = no_read
    /\ NoDiskFile

-----------------------------------------------------------------------------
(* sproxyd_client.py: SproxydClient.__init__.  An endpoint given to it is   *)
(* the result of urlparse: name stands for its scheme, netloc and path      *)
(* (EndpointUrl), params, query and fragment are "" when the URL has none.  *)

\* healthcheck_threads[e]: the green threads __init__ spawned for endpoint
\* e by eventlet.spawn(utils.monitoring_loop, ping_url, on_up, on_down).
\* spawned is how many there are; at is where the thread is suspended:
\* "sleep" (not started yet, or in eventlet.sleep(1)) or "ping" (in the
\* request of ping()); kill is what thread.kill() in __del__ did: "none"
\* (not called), "killed" (returned) or "raised"
no_thread == [spawned |-> 0, at |-> "sleep", dead |-> FALSE, kill |-> "none"]

spawn(thread) == [thread EXCEPT !.spawned = @ + 1]

\* __init__: the loop that fills _healthcheck_threads
spawn_threads(eps) ==
    [e \in Universe |-> IF e \in eps THEN spawn(no_thread) ELSE no_thread]

GivenUrls ==
    [name : Universe, params : {"", "p"}, query : {"", "q"}, fragment : {"", "f"}]

valid_url(e) == [name |-> e, params |-> "", query |-> "", fragment |-> ""]

\* faulty variant: the fragment is not checked
rejected_fragment_unchecked(endpoint) ==
    endpoint.params # "" \/ endpoint.query # ""

\* __init__: whether the loop over self.endpoints raises ValueError for this
\* endpoint
rejected(endpoint) ==
    endpoint.params # "" \/ endpoint.query # "" \/ endpoint.fragment # ""

\* faulty variant: no endpoint is alive until its monitor has probed it
SproxydClient_init_none_alive(given) ==
    /\ construction.pc = "none"
    /\ IF \E endpoint \in given : rejected(endpoint)
       THEN /\ construction' = [pc |-> "ValueError", given |-> given]
            /\ UNCHANGED <<endpoints, client, healthcheck_threads>>
       ELSE /\ construction' = [pc |-> "returned", given |-> given]
            /\ endpoints' = {endpoint.name : endpoint \in given}
            /\ client' = [alive |-> {}, cycle |-> itertools_cycle({}, <<>>)]
            /\ healthcheck_threads' = spawn_threads(endpoints')
    /\ UNCHANGED <<now, afd, is_operational, wake, cb_log, ping_count, drawn, ops,
                   clients, reads, probe, fp, writer, diskfile>>

\* SproxydClient(endpoints = given, ...): ValueError before anything is
\* built, or the client with its monitoring loops
SproxydClient_init(given) ==
    /\ construction.pc = "none"
    /\ IF \E endpoint \in given : rejected(endpoint)
       THEN /\ construction' = [pc |-> "ValueError", given |-> given]
            /\ UNCHANGED <<endpoints, client, healthcheck_threads>>
       ELSE /\ construction' = [pc |-> "returned", given |-> given]
            /\ endpoints' = {endpoint.name : endpoint \in given}
            /\ \E o \in Orders(endpoints') :
                  client' = [alive |-> endpoints', cycle |-> itertools_cycle(endpoints', o)]
            /\ healthcheck_threads' = spawn_threads(endpoints')
    /\ UNCHANGED <<now, afd, is_operational, wake, cb_log, ping_count, drawn, ops,
                   clients, reads, probe, fp, writer, diskfile>>

\* no SproxydClient yet
NoClient ==
    /\ now = 1
    /\ endpoints = {}
    /\ client = [alive |-> {}, cycle |-> itertools_cycle({}, <<>>)]
    /\ afd = [e \in Universe |-> afd_init]
    /\ is_operational = [e \in Universe |-> None]
    /\ wake = [e \in Universe |-> 1]
    /\ cb_log = [e \in Universe |-> <<>>]
    /\ ping_count = [e \in Universe |-> [ok |-> 0, ko |-> 0]]
    /\ drawn = <<>>
    /\ ops = [c \in Callers |-> no_op]
    /\ probe = [e \in Universe |-> no_probe]
    /\ construction = [pc |-> "none", given |-> {}]
    /\ healthcheck_threads = [e \in Universe |-> no_thread]

\* SproxydClient.__init__ with endpoints eps, at time t0
ClientInit(eps, t0) ==
    /\ now = t0
    /\ endpoints = eps
    /\ \E o \in Orders(eps) : client = [alive |-> eps, cycle |-> itertools_cycle(eps, o)]
    /\ healthcheck_threads = spawn_threads(eps)
    /\ afd = [e \in Universe |-> afd_init]
    /\ is_operational = [e \in Universe |-> None]
    /\ wake = [e \in Universe |-> t0]
    /\ cb_log = [e \in Universe |-> <<>>]
    /\ ping_count = [e \in Universe |-> [ok |-> 0, ko |-> 0]]
    /\ drawn = <<>>
    /\ ops = [c \in Callers |-> no_op]
    /\ probe = [e \in Universe |-> no_probe]
    /\ construction = [pc |-> "returned", given |-> {valid_url(e) : e \in eps}]

\* The client of two endpoints with its monitoring loops and its callers
Init == ClientInit({"A", "B"}, MaxTime - Horizon) /\ NoClientCollection

Next ==
    \/ Advance
    \/ \E e \in Universe : monitoring_loop(e)
    \/ get_next_endpoint("c1")

Spec == Init /\ [][Next]_vars

\* One monitoring loop alone, over a long time
InitLoop == ClientInit({"A"}, 1) /\ NoClientCollection

NextLoop ==
    \/ Advance
    \/ \E e \in Universe : monitoring_loop(e)

SpecLoop == InitLoop /\ [][NextLoop]_vars

\* The routing state of a client of three endpoints under any sequence of
\* callbacks its loops can make
InitRouting == ClientInit(Universe, 1) /\ NoClientCollection

NextRouting ==
    \/ \E e \in Universe : health_event(e)
    \/ \E c \in Callers : get_next_endpoint(c)

SpecRouting == InitRouting /\ [][NextRouting]_vars

\* The object operations of one caller on a client of two endpoints, under
\* any sequence of callbacks its loops can make
InitOps == ClientInit({"A", "B"}, 1) /\ NoClientCollection

NextOps ==
    \/ \E e \in Universe : health_event(e)
    \/ get_meta("c1")
    \/ \E has_metadata \in BOOLEAN : put_meta("c1", has_metadata)
    \/ del_object("c1")
    \/ get_object("c1")
    \/ \E status \in Statuses : response("c1", status)
    \/ request_fails("c1")

SpecOps == InitOps /\ [][NextOps]_vars

\* The same operations with their responses' connections: a get_meta whose
\* metadata does not decode, and the consumer of get_object's generator
NextConn ==
    \/ NextOps
    \/ response_undecodable("c1")
    \/ generator_next("c1")
    \/ generator_close("c1")

SpecConn == InitOps /\ [][NextConn]_vars

\* The health checks of a client of two endpoints, for any answer to the
\* request
NextPing ==
    \E e \in Universe, r \in PingOutcomes : _ping(e, r)

SpecPing == InitOps /\ [][NextPing]_vars

\* The construction of a client from one or two endpoints of any form, and
\* the callbacks of its monitoring loops
InitConstruction == NoClient /\ NoClientCollection

NextConstruction ==
    \/ \E given \in {g \in SUBSET GivenUrls : Cardinality(g) \in 1..MaxEndpoints} :
          SproxydClient_init(given)
    \/ \E e \in Universe : health_event(e)

SpecConstruction == InitConstruction /\ [][NextConstruction]_vars

\* A client of one or two endpoints from its construction to its teardown,
\* with the green threads of its monitoring loops
InitThreads == NoClient /\ NoClientCollection

NextThreads ==
    \/ \E eps \in {s \in SUBSET Universe : Cardinality(s) \in 1..MaxEndpoints} :
          SproxydClient_init({valid_url(e) : e \in eps})
    \/ \E e \in Universe : monitoring_loop_pings(e)
    \/ \E e \in Universe, r \in LoopOutcomes : monitoring_loop_resumes(e, r)
    \/ \E e \in Universe, raises \in BOOLEAN : SproxydClient_del(e, raises)

SpecThreads == InitThreads /\ [][NextThreads]_vars

\* The calls on a SomewhatBufferedFileObject that has any data buffered and
\* any data to come
InitFileObject ==
    /\ NoClient
    /\ clients = <<>>
    /\ reads = no_read
    /\ writer = no_writer
    /\ diskfile = no_diskfile
    /\ \E buf \in Data, sock \in Data : fp = fileobject(buf, sock)

NextFileObject == fp_call

SpecFileObject == InitFileObject /\ [][NextFileObject]_vars

\* A DiskFileWriter from its construction to the end of put
InitWriter ==
    /\ NoClient
    /\ clients = <<>>
    /\ reads = no_read
    /\ fp = no_fp
    /\ diskfile = no_diskfile
    /\ writer = DiskFileWriter

NextWriter ==
    \/ \E n \in 1..2 : DiskFileWriter_write(n)
    \/ \E send_raises \in BOOLEAN : DiskFileWriter_put(send_raises)
    \/ \E answer \in PutAnswers, close_raises \in BOOLEAN :
          DiskFileWriter_put_getresponse(answer, close_raises)
    \/ \E exc \in {None, "SproxydHTTPException", "NoClientAvailable"} :
          DiskFileWriter_put_meta(exc)

SpecWriter == InitWriter /\ [][NextWriter]_vars

\* The calls on a DiskFile, for every object get_meta can find or not
InitDiskFile ==
    /\ NoClient
    /\ clients = <<>>
    /\ reads = no_read
    /\ fp = no_fp
    /\ writer = no_writer
    /\ diskfile = no_diskfile

NextDiskFile == DiskFile_call

SpecDiskFile == InitDiskFile /\ [][NextDiskFile]_vars

\* The reads through a ClientCollection of two read clients and two write
\* clients, under any sequence of callbacks of their monitoring loops
InitCollection == ClientInit({"A"}, 1) /\ ClientCollectionInit

NextCollection ==
    \/ \E k \in ClientNames : client_callback(k)
    \/ \E op \in ReadOperations : try_read(op)
    \/ \E status \in Statuses \cup {NoResponse} : try_read_resumes(status)

SpecCollection == InitCollection /\ [][NextCollection]_vars

-----------------------------------------------------------------------------
(* Fairness: the eventlet hub runs every monitoring loop whose sleep is     *)
(* over, and time passes.                                                   *)

FairSpec ==
    /\ Spec
    /\ WF_vars(Advance)
    /\ \A e \in Universe : WF_vars(monitoring_loop(e))

-----------------------------------------------------------------------------
(* Properties *)

Count(log, cb) == Cardinality({i \in 1..Len(log) : log[i] = cb})

Abs(n) == IF n < 0 THEN -n ELSE n

\* C1: the callbacks of a monitoring loop alternate strictly: no two
\* consecutive invocations are the same callback, and at every moment the
\* numbers of on_up and on_down calls differ by at most 1.
C1_CallbacksAlternate ==
    \A e \in Universe :
        /\ \A i \in 1..(Len(cb_log[e]) - 1) : cb_log[e][i] # cb_log[e][i + 1]
        /\ Abs(Count(cb_log[e], "up") - Count(cb_log[e], "down")) <= 1

\* a loop that went down, up and down again, or up, down and up again
C1_Witness ==
    Len(cb_log["A"]) >= 3

\* C2: an iteration whose probe succeeded (the one that records a heartbeat)
\* does not invoke on_down, whatever the detector reports.
C2_NoDownOnSuccess ==
    [][\A e \in Universe :
          afd'[e] # afd[e] =>
              cb_log'[e] \in {cb_log[e], Append(cb_log[e], "up")}]_vars

\* a successful first probe: a heartbeat was just recorded, the detector has
\* no mean and so reports dead, the flag is still None, and no callback ran
C2_Witness ==
    /\ afd["A"].timestamp = now
    /\ afd["A"].mean = NoMean
    /\ isDead(afd["A"], now)
    /\ is_operational["A"] = None
    /\ cb_log["A"] = <<>>

\* C3: while every probe of a loop has failed, the loop has invoked on_down
\* exactly once (at its first iteration) and never on_up.
C3_AlwaysFailingDownOnce ==
    \A e \in Universe :
        (ping_count[e].ok = 0 /\ ping_count[e].ko >= 1) => cb_log[e] = <<"down">>

\* five failed probes in a row, one on_down
C3_Witness ==
    /\ ping_count["A"].ok = 0
    /\ ping_count["A"].ko >= 5
    /\ cb_log["A"] = <<"down">>

\* C4: while every probe of a loop has succeeded, the loop has never invoked
\* on_down, and has invoked on_up exactly once as soon as three probes
\* succeeded (none before).
C4_AlwaysSucceedingUpOnce ==
    \A e \in Universe :
        ping_count[e].ko = 0 =>
            cb_log[e] = IF ping_count[e].ok >= 3 THEN <<"up">> ELSE <<>>

\* five successful probes in a row, one on_up
C4_Witness ==
    /\ ping_count["A"].ko = 0
    /\ ping_count["A"].ok >= 5
    /\ cb_log["A"] = <<"up">>

\* C5: with endpoints {A, B}, if every probe of A fails and every probe of B
\* succeeds, the alive set eventually is {B} and stays {B}, and from then on
\* every draw from the cursor returns B.
C5_ConvergesToB ==
    [](ping_count["A"].ok = 0 /\ ping_count["B"].ko = 0)
        => <>[](/\ client.alive = {"B"}
                /\ \A i \in 1..Len(drawn) : drawn[i].ep = "B"
                /\ cycle_next(client.cycle).value = "B")

\* A failed twice, B succeeded three times (its on_up has run), the alive set
\* is {B} and two draws have been made since
C5_Witness ==
    /\ endpoints = {"A", "B"}
    /\ ping_count["A"].ok = 0 /\ ping_count["A"].ko >= 2
    /\ ping_count["B"].ko = 0 /\ ping_count["B"].ok >= 3
    /\ cb_log["B"] = <<"up">>
    /\ client.alive = {"B"}
    /\ Len(drawn) >= 2

\* C6: an object operation called while the alive set is empty (put_meta with
\* metadata) has failed at once with the dedicated "no endpoint available"
\* error: it raised that error, issued no HTTP request and never waited.
C6_EmptyAliveSetFailsFast ==
    \A c \in Callers :
        (ops[c].alive_empty /\ ops[c].result # "SproxydHTTPException: no usermd") =>
            /\ ops[c].pc = "raised"
            /\ ops[c].result = "NoEndpointAvailable"
            /\ ops[c].requests = 0

\* C7: with N alive endpoints and no callback in between, any N consecutive
\* draws return N different alive endpoints (each alive endpoint once), and
\* the draw N calls later returns the same endpoint again.
C7_RoundRobin ==
    LET N == Cardinality(client.alive)
        L == Len(drawn)
    IN  /\ \A i \in 1..L : drawn[i].ep \in client.alive
        /\ \A i, j \in 1..L : (i < j /\ j < i + N) => drawn[i].ep # drawn[j].ep
        /\ \A i \in 1..(L - N) : drawn[i + N].ep = drawn[i].ep

\* three alive endpoints and two full rounds drawn
C7_Witness ==
    /\ Cardinality(client.alive) = 3
    /\ Len(drawn) = 6

\* C8: once _on_sproxyd_down(e) has run, and until _on_sproxyd_up(e) runs, no
\* draw returns e.
C8_DownNotDrawn ==
    \A e \in Universe :
        is_operational[e] = "False" => \A i \in 1..Len(drawn) : drawn[i].ep # e

\* A is down, the two others are alive and have been drawn
C8_Witness ==
    /\ is_operational["A"] = "False"
    /\ client.alive = {"B", "C"}
    /\ Len(drawn) >= 2

\* C9: _alive and _cycle are replaced as a pair: in every state the cursor is
\* the one built over the current alive set, so every draw is made from it.
C9_CursorOverAliveSet ==
    /\ client.cycle.src = client.alive
    /\ Range(client.cycle.order) = client.alive
    /\ \A i \in 1..Len(drawn) : drawn[i].ep \in client.alive

\* draws made after callbacks changed the alive set, one endpoint having gone
\* down and come back
C9_Witness ==
    /\ is_operational["A"] = "True"
    /\ is_operational["B"] = "False"
    /\ Len(drawn) >= 1

\* C10: draws of several callers interleaved are still a round robin: every
\* window of N consecutive draws holds each alive endpoint exactly once, and
\* the cursor stays well formed.
C10_InterleavedRoundRobin ==
    LET N == Cardinality(client.alive)
        L == Len(drawn)
    IN  /\ \A i \in 1..(L - N + 1) :
              {drawn[k].ep : k \in i..(i + N - 1)} = client.alive
        /\ Len(client.cycle.order) = N
        /\ client.cycle.pos \in 0..(IF N = 0 THEN 0 ELSE N - 1)
        /\ \A i, j \in 1..N : i # j => client.cycle.order[i] # client.cycle.order[j]

\* three alive endpoints, more than a round drawn, the two callers taking turns
C10_Witness ==
    /\ Cardinality(client.alive) = 3
    /\ Len(drawn) >= 5
    /\ \A i \in 1..(Len(drawn) - 1) : drawn[i].by # drawn[i + 1].by

\* C11: in every reachable state the alive set is a subset of the configured
\* endpoint set, and no step changes the configured endpoint set.
C11_AliveSubsetOfEndpoints ==
    /\ [](client.alive \subseteq endpoints)
    /\ [][endpoints' = endpoints]_vars

\* the callbacks have changed the alive set of a client whose endpoints are
\* not all there are: B was removed, A was removed and added back
C11_Witness ==
    /\ endpoints = {"A", "B"}
    /\ is_operational["A"] = "True"
    /\ is_operational["B"] = "False"
    /\ client.alive = {"A"}

\* C12: an object operation that failed with a network error, a timeout or
\* an unexpected HTTP status has issued exactly one HTTP request, to one
\* configured endpoint, and no step of an operation changes the alive set:
\* every step that changes it is a callback of a monitoring loop.
C12_FailureOneRequestAliveKept ==
    /\ [](\A c \in Callers :
            (/\ ops[c].pc = "raised"
             /\ ops[c].result \in {"urllib3 error", "SproxydHTTPException"})
            => /\ ops[c].requests = 1
               /\ ops[c].endpoint \in endpoints)
    /\ [][client'.alive # client.alive
            => /\ ops' = ops
               /\ \E e \in endpoints : is_operational'[e] # is_operational[e]]_vars

\* get_object was answered 500 by an endpoint that is still in the alive set,
\* which is the full set
C12_Witness ==
    /\ ops["c1"].pc = "raised"
    /\ ops["c1"].op = "get_object"
    /\ ops["c1"].result = "SproxydHTTPException"
    /\ ops["c1"].http_status = 500
    /\ ops["c1"].endpoint \in client.alive
    /\ client.alive = endpoints

\* the first client of the list, in list order, whose alive set is not empty
FirstWithAliveEndpoints(cls) ==
    LET I == {i \in 1..Len(cls) : clients[cls[i]].alive # {}}
    IN  IF I = {} THEN NoClientAvailable
        ELSE cls[CHOOSE i \in I : \A j \in I : i <= j]

\* the step of try_read at which its call of fn on a read client raises
\* SproxydHTTPException with this status
ReadClientRaises(status) ==
    /\ reads.pc = "read"
    /\ reads' # reads
    /\ reads'.calls[1].status = status
    /\ status # NoResponse
    /\ status \notin handlers(reads.op)

\* C13: when fn raises SproxydHTTPException with http_status 404 on the read
\* client, try_read calls fn once more, on the first write client with alive
\* endpoints (NoClientAvailable is raised if there is none); what that call
\* returns or raises is what try_read returns or raises; fn is never called
\* a third time.
C13_FallbackOn404 ==
    /\ [][ReadClientRaises(404) =>
            IF FirstWithAliveEndpoints(write_clients) = NoClientAvailable
            THEN /\ reads'.pc = "raised"
                 /\ reads'.result = NoClientAvailable
                 /\ Len(reads'.calls) = 1
            ELSE /\ reads'.pc = "write"
                 /\ Len(reads'.calls) = 2
                 /\ reads'.calls[2].client = FirstWithAliveEndpoints(write_clients)]_vars
    /\ [][(reads.pc = "write" /\ reads' # reads) =>
            /\ Len(reads'.calls) = Len(reads.calls)
            /\ LET o == fn_outcome(reads.op, reads'.calls[Len(reads.calls)].status)
               IN  /\ reads'.pc = o.pc
                   /\ reads'.result = o.result
                   /\ reads'.http_status = o.http_status]_vars
    /\ [](Len(reads.calls) <= 2)

\* get_object answered 404 by the first read client, then 200 by the second
\* write client, the first having no alive endpoint: try_read returned the
\* generator
C13_Witness ==
    /\ reads.pc = "returned"
    /\ reads.op = "get_object"
    /\ reads.calls = <<[client |-> "r1", status |-> 404], [client |-> "w2", status |-> 200]>>
    /\ reads.result = "generator"
    /\ clients["w1"].alive = {}

\* C14: when fn raises on the read client an HTTP error whose status is not
\* 404, or any other exception, try_read raises it at once: fn has been
\* called once, on the read client, and on no write client.
C14_OtherErrorsPropagate ==
    [][\A status \in (Statuses \cup {NoResponse}) \ {404} :
         (\/ ReadClientRaises(status)
          \/ /\ reads.pc = "read" /\ reads' # reads
             /\ status = NoResponse /\ reads'.calls[1].status = NoResponse)
         => /\ reads'.pc = "raised"
            /\ reads'.result = IF status = NoResponse THEN "urllib3 error"
                                                      ELSE "SproxydHTTPException"
            /\ reads'.http_status = status
            /\ Len(reads'.calls) = 1
            /\ reads'.calls[1].client \in Range(read_clients)]_vars

\* get_meta answered 500 by the first read client while both write clients
\* have alive endpoints: try_read raised the error of the read client
C14_Witness ==
    /\ reads.pc = "raised"
    /\ reads.op = "get_meta"
    /\ reads.calls = <<[client |-> "r1", status |-> 500]>>
    /\ reads.result = "SproxydHTTPException"
    /\ reads.http_status = 500
    /\ \A k \in Range(write_clients) : clients[k].alive # {}

\* the step at which try_read is called
TryReadCalled ==
    /\ reads.pc \notin {"read", "write"}
    /\ reads' # reads

\* C15, as claimed: when no read client has an alive endpoint, try_read
\* raises NoClientAvailable at once and calls fn on no write client.
C15_NoReadClientPropagates ==
    [][(TryReadCalled /\ FirstWithAliveEndpoints(read_clients) = NoClientAvailable)
         => /\ reads'.pc = "raised"
            /\ reads'.result = NoClientAvailable
            /\ reads'.calls = <<>>]_vars

\* C15, amended: when no read client has an alive endpoint, try_read calls
\* fn on the first write client with alive endpoints; it raises
\* NoClientAvailable, without calling fn, only when no write client has an
\* alive endpoint either.
C15_NoReadClientFallsBack ==
    [][(TryReadCalled /\ FirstWithAliveEndpoints(read_clients) = NoClientAvailable)
         => IF FirstWithAliveEndpoints(write_clients) = NoClientAvailable
            THEN /\ reads'.pc = "raised"
                 /\ reads'.result = NoClientAvailable
                 /\ reads'.calls = <<>>
            ELSE /\ reads'.pc = "write"
                 /\ reads'.calls = <<[client |-> FirstWithAliveEndpoints(write_clients),
                                      status |-> NoResponse]>>]_vars

\* no read client has an alive endpoint and fn is running on the first write
\* client, its only call
C15_Witness ==
    /\ \A k \in Range(read_clients) : clients[k].alive = {}
    /\ reads.pc = "write"
    /\ Len(reads.calls) = 1
    /\ reads.calls[1].client = "w1"

C17_OpenFallsBackOn404 ==
    [][(/\ reads.pc = "read" /\ reads.op = "get_meta" /\ reads' # reads
        /\ reads'.calls[1].status = 404
        /\ FirstWithAliveEndpoints(write_clients) # NoClientAvailable)
         => /\ ~(reads'.pc = "returned" /\ DiskFile_open(reads') = "DiskFileDeleted")
            /\ reads'.pc = "write"
            /\ reads'.calls[2].client = FirstWithAliveEndpoints(write_clients)]_vars

\* C18: in every reachable state get_read_client() and get_write_client()
\* return the first client of their list, in list order, whose alive set is
\* not empty, and raise NoClientAvailable when the list has none.
C18_FirstClientWithAliveEndpoints ==
    /\ get_read_client = FirstWithAliveEndpoints(read_clients)
    /\ get_write_client = FirstWithAliveEndpoints(write_clients)
    /\ (get_read_client = NoClientAvailable)
           <=> (\A k \in Range(read_clients) : clients[k].alive = {})
    /\ (get_write_client = NoClientAvailable)
           <=> (\A k \in Range(write_clients) : clients[k].alive = {})

\* the first read client has no alive endpoint and the second has one: fn
\* runs on the second; the first write client has one of its two endpoints
\* alive and is the write client returned
C18_Witness ==
    /\ clients["r1"].alive = {}
    /\ clients["r2"].alive = {"C"}
    /\ clients["w1"].alive = {"B"}
    /\ get_read_client = "r2"
    /\ get_write_client = "w1"
    /\ reads.pc = "read"
    /\ reads.calls[1].client = "r2"

\* the operation of caller c is this one and has ended on a response
Answered(c, op) ==
    /\ ops[c].op = op
    /\ ops[c].pc \in {"returned", "raised"}
    /\ ops[c].http_status \in Statuses

\* C19: del_object returns (None) when the endpoint answers 404, exactly as
\* when it answers 200, and raises SproxydHTTPException carrying the status
\* for any other status.
C19_DeleteIdempotent ==
    \A c \in Callers :
        Answered(c, "del_object") =>
            IF ops[c].http_status \in {200, 404}
            THEN ops[c].pc = "returned" /\ ops[c].result = "None"
            ELSE ops[c].pc = "raised" /\ ops[c].result = "SproxydHTTPException"

\* del_object answered 404 has returned
C19_Witness ==
    /\ Answered("c1", "del_object")
    /\ ops["c1"].http_status = 404
    /\ ops["c1"].pc = "returned"
    /\ ops["c1"].requests = 1

C21_PutMetaNoneBeforeNetwork ==
    /\ [](\A c \in Callers :
            ops[c].result = "SproxydHTTPException: no usermd"
            => /\ ops[c].pc = "raised"
               /\ ops[c].op = "put_meta"
               /\ ops[c].requests = 0
               /\ ops[c].endpoint = None)
    /\ [][\A c \in Callers :
            (ops'[c] # ops[c] /\ ops'[c].result = "SproxydHTTPException: no usermd")
            => client' = client /\ drawn' = drawn]_vars

\* put_meta(name, None) has raised on a client with alive endpoints, after an
\* earlier operation had moved the cursor
C21_Witness ==
    /\ ops["c1"].pc = "raised"
    /\ ops["c1"].op = "put_meta"
    /\ ops["c1"].result = "SproxydHTTPException: no usermd"
    /\ client.alive = {"A", "B"}
    /\ client.cycle.pos = 1
    /\ Len(drawn) = 1

\* C22: for every operation, a response whose status is outside the set the
\* operation handles raises SproxydHTTPException carrying the host and the
\* port of the endpoint the request went to, the path requested, and the
\* status and reason of that response.
C22_UnexpectedStatusException ==
    \A c \in Callers :
        LET o == ops[c]
            handled == CASE o.op = "get_meta"   -> {200, 404}
                         [] o.op = "put_meta"   -> {200}
                         [] o.op = "del_object" -> {200, 404}
                         [] o.op = "get_object" -> {200, 206}
                         [] OTHER -> {}
        IN  (o.pc \in {"returned", "raised"} /\ o.http_status \in Statuses \ handled)
            => /\ o.pc = "raised"
               /\ o.result = "SproxydHTTPException"
               /\ LET exc == raised_exception(o)
                      url == EndpointUrl[o.endpoint]
                  IN  /\ exc.ipaddr = <<url.netloc[1]>>
                      /\ exc.port = IF Len(url.netloc) = 3 THEN <<url.netloc[3]>> ELSE <<>>
                      /\ exc.base_path = <<"/", "proxy", "/", "chord", "/", "name">>
                      /\ exc.http_status = o.http_status
                      /\ exc.http_reason = HTTPResponse(o.http_status).reason
                      /\ exc.http_reason # ""

\* put_meta answered 404 by endpoint A has raised the exception with A's
\* host and port
C22_Witness ==
    /\ ops["c1"].pc = "raised"
    /\ ops["c1"].op = "put_meta"
    /\ ops["c1"].http_status = 404
    /\ ops["c1"].endpoint = "A"
    /\ raised_exception(ops["c1"]).ipaddr = <<"hostA">>
    /\ raised_exception(ops["c1"]).port = <<"81">>
    /\ raised_exception(ops["c1"]).http_reason = "Not Found"

\* C23, as claimed: every get_meta, put_meta or del_object that has ended
\* after a response was received, by a return or by an exception, has
\* drained the response and released its connection to the pool.
C23_NonStreamingReleases ==
    \A c \in Callers :
        (/\ ops[c].op \in {"get_meta", "put_meta", "del_object"}
         /\ ops[c].pc \in {"returned", "raised"}
         /\ ops[c].http_status \in Statuses)
        => /\ ops[c].body = "drained"
           /\ ops[c].conn = "released"

\* C24, as claimed: once the generator returned by get_object has ended,
\* read to exhaustion or abandoned by its consumer before the end, the
\* connection of the response is released to the pool.
C24_StreamReleases ==
    \A c \in Callers :
        ops[c].generator \in {"exhausted", "closed"} => ops[c].conn = "released"

\* C25: a detector that has recorded zero, one or two heartbeats reports
\* isDead(), its phi() being threshold + 1, at every time from the last
\* heartbeat on, that very moment included.
C25_DeadBeforeThreeHeartbeats ==
    \A e \in Universe :
        ping_count[e].ok <= 2
        => /\ isDead(afd[e], now)
           /\ ~isAlive(afd[e], now)
           /\ phi(afd[e], now) = (threshold + 1) * Micro

\* the second heartbeat has just been recorded
C25_Witness ==
    /\ ping_count["A"].ok = 2
    /\ afd["A"].timestamp = now
    /\ Len(afd["A"].intervals) = 1
    /\ isDead(afd["A"], now)

\* C26, as claimed: the detector has no mean, and phi() is threshold + 1,
\* exactly while fewer than 2 heartbeats have been recorded.
C26_MeanFromTwoHeartbeats ==
    \A e \in Universe :
        /\ (ping_count[e].ok < 2) <=> (afd[e].mean = NoMean)
        /\ (ping_count[e].ok < 2) <=> (phi(afd[e], now) = (threshold + 1) * Micro)

\* C26, amended: the detector has no mean, and phi() is threshold + 1,
\* exactly while fewer than 3 heartbeats have been recorded; from the third
\* heartbeat on a mean exists and phi() is computed from the time elapsed
\* since the last heartbeat: 0 at the heartbeat, growing with the time
\* elapsed up to the value it is clamped to.
C26_MeanFromThreeHeartbeats ==
    \A e \in Universe :
        /\ (ping_count[e].ok < 3) <=> (afd[e].mean = NoMean)
        /\ (ping_count[e].ok < 3) <=> (phi(afd[e], now) = (threshold + 1) * Micro)
        /\ ping_count[e].ok >= 3 =>
              /\ phi(afd[e], afd[e].timestamp) = 0
              /\ \A t \in afd[e].timestamp..MaxTime :
                    \/ phi(afd[e], t + 1) > phi(afd[e], t)
                    \/ phi(afd[e], t + 1) = ClampedPhi * Micro

\* three heartbeats recorded, the last one two seconds ago
C26_Witness ==
    /\ ping_count["A"].ok = 3
    /\ afd["A"].mean # NoMean
    /\ now = afd["A"].timestamp + 2
    /\ phi(afd["A"], now) > 0

\* C27: right after a heartbeat that leaves the detector with a mean (the
\* third and every later one) isAlive() is true, whatever the gap before
\* that heartbeat.
C27_AliveAfterHeartbeat ==
    \A e \in Universe :
        (ping_count[e].ok >= 3 /\ afd[e].timestamp = now)
        => /\ afd[e].mean # NoMean
           /\ isAlive(afd[e], now)

\* the third heartbeat has just been recorded, ten seconds after the second
C27_Witness ==
    /\ ping_count["A"].ok = 3
    /\ afd["A"].timestamp = now
    /\ afd["A"].intervals = <<1, 10>>
    /\ isAlive(afd["A"], now)

\* C28: the detector never stores more than max_sample_size intervals, and a
\* heartbeat recorded when it stores that many evicts the oldest one.
C28_SampleSizeBounded ==
    /\ [](\A e \in Universe : Len(afd[e].intervals) <= max_sample_size)
    /\ [][\A e \in Universe :
            (afd'[e] # afd[e] /\ Len(afd[e].intervals) = max_sample_size)
            => afd'[e].intervals =
                 Append(Tail(afd[e].intervals), afd'[e].timestamp - afd[e].timestamp)]_vars

\* five heartbeats recorded, the last three at different gaps: the two last
\* intervals are stored
C28_Witness ==
    /\ ping_count["A"].ok = 5
    /\ afd["A"].intervals = <<2, 3>>
    /\ Len(afd["A"].intervals) = max_sample_size

\* the body has a line with by_path_enabled set to 1 or true
FlagEnabled(data) ==
    \E i \in 1..Len(data) :
        data[i].key = "by_path_enabled" /\ data[i].value \in {"1", "true", "True"}

\* C29, as claimed: _ping returns True only for a response with a 2xx status
\* whose body has the by_path_enabled flag enabled; a response with another
\* status is a failed probe even if its body has the flag.
C29_PingNeeds2xxAndFlag ==
    \A e \in Universe :
        probe[e].result = TRUE
        <=> /\ probe[e].exc = None
            /\ probe[e].status \in 200..299
            /\ FlagEnabled(probe[e].data)

\* C30: constructing a SproxydClient with an endpoint that has params, a
\* query or a fragment raises ValueError: no client exists and no monitoring
\* loop runs; a client that was constructed has exactly the endpoints given,
\* none of which has any of the three.
C30_EndpointValidation ==
    LET offending == {u \in construction.given :
                         u.params # "" \/ u.query # "" \/ u.fragment # ""}
    IN  /\ (construction.pc # "none" /\ offending # {})
            => /\ construction.pc = "ValueError"
               /\ endpoints = {}
               /\ client.alive = {}
               /\ \A e \in Universe : is_operational[e] = None
        /\ construction.pc = "returned"
            => /\ offending = {}
               /\ endpoints = {u.name : u \in construction.given}

\* a valid endpoint A and an endpoint B with a fragment were given:
\* ValueError
C30_Witness ==
    /\ construction.pc = "ValueError"
    /\ construction.given = {valid_url("A"),
                             [name |-> "B", params |-> "", query |-> "", fragment |-> "f"]}
    /\ endpoints = {}

\* C31: a constructed client has exactly one monitoring thread for each
\* configured endpoint and none for any other, and a step in which the
\* callbacks of the monitor of endpoint e run (its flag changes) leaves the
\* membership of every other endpoint in the alive set as it was.
C31_OneMonitorOwnEndpointOnly ==
    [][/\ construction'.pc = "returned" =>
            \A e \in Universe :
               healthcheck_threads'[e].spawned = (IF e \in endpoints' THEN 1 ELSE 0)
       /\ \A e \in Universe :
            is_operational'[e] # is_operational[e] =>
               \A f \in Universe \ {e} :
                  (f \in client'.alive) <=> (f \in client.alive)
      ]_vars

\* the monitor of A has taken A out of the alive set, B is still in it
\* although the monitor of B has invoked no callback
C31_Witness ==
    /\ endpoints = {"A", "B"}
    /\ is_operational["A"] = "False"
    /\ is_operational["B"] = None
    /\ client.alive = {"B"}
    /\ healthcheck_threads["A"].spawned = 1 /\ healthcheck_threads["B"].spawned = 1

\* C32: once __del__ has called kill() for every thread the client spawned,
\* every thread whose kill() returned is dead (a kill() that raised is
\* logged and the loop goes on to the next thread).
C32_TeardownKillsEveryThread ==
    (/\ construction.pc = "returned"
     /\ \A e \in endpoints : healthcheck_threads[e].kill # "none")
    => \A e \in endpoints :
          healthcheck_threads[e].kill = "killed" => healthcheck_threads[e].dead

\* C33: a monitoring thread is dead only if it was killed: whatever the
\* requests of its probes do (a valid or an invalid configuration, a network
\* error, an unexpected error) the loop does not end, and a thread that is
\* not dead can always take its next step.
C33_LoopNeverReturns ==
    \A e \in Universe :
       /\ healthcheck_threads[e].dead => healthcheck_threads[e].kill = "killed"
       /\ (healthcheck_threads[e].spawned > 0 /\ ~healthcheck_threads[e].dead)
            => ENABLED (\/ monitoring_loop_pings(e)
                        \/ \E r \in LoopOutcomes : monitoring_loop_resumes(e, r))

\* the thread of A is in its next sleep after a probe that raised an
\* unexpected error, the thread of B in a probe after one that met a network
\* error
C33_Witness ==
    /\ probe["A"].exc = "Exception"
    /\ healthcheck_threads["A"].at = "sleep" /\ ~healthcheck_threads["A"].dead
    /\ probe["B"].exc = "IOError"
    /\ healthcheck_threads["B"].at = "ping" /\ ~healthcheck_threads["B"].dead

\* C34: while no health check of a constructed client has ended, its alive
\* set is the set of its configured endpoints, and has_alive_endpoints is
\* true if there is at least one.
C34_AllAliveAfterConstruction ==
    (/\ construction.pc = "returned"
     /\ \A e \in Universe : probe[e] = no_probe)
    => /\ client.alive = endpoints
       /\ endpoints # {} => has_alive_endpoints(client)

\* a client of A and B whose threads have started their first probes
C34_Witness ==
    /\ construction.pc = "returned"
    /\ endpoints = {"A", "B"}
    /\ \A e \in Universe : probe[e] = no_probe
    /\ \A e \in endpoints : healthcheck_threads[e].at = "ping"
    /\ has_alive_endpoints(client)

\* C35: get_buffered returns at most once for a file object.  A call of
\* get_buffered, read, readline, readlines or next made after it raises
\* InvariantViolation and leaves the object as it is; a call of a read
\* method made before it does not raise InvariantViolation and returns the
\* next bytes of the stream, none lost.
C35_GetBufferedOnce ==
    [][fp'.calls = fp.calls + 1 =>
         /\ fp'.got <= 1
         /\ fp._rbuf = <<>> =>
               /\ fp'.raised = "InvariantViolation"
               /\ fp'._rbuf = <<>> /\ fp'.sock = fp.sock /\ fp'.consumed = fp.consumed
         /\ (fp._rbuf # <<>> /\ fp'.called # "get_buffered") =>
               /\ fp'.raised \in {None, "StopIteration"}
               /\ fp'._rbuf # <<>>
               /\ fp'.consumed \o fp'._rbuf[1] \o fp'.sock
                    = fp.consumed \o fp._rbuf[1] \o fp.sock
      ]_vars

\* a line was read, get_buffered gave the rest of the buffer, and the next
\* read raised InvariantViolation
C35_Witness ==
    /\ fp.calls = 3
    /\ fp.consumed = <<"a", "nl">>
    /\ fp.got = 1
    /\ fp.called = "read" /\ fp.raised = "InvariantViolation"
    /\ fp._rbuf = <<>>

\* C36: put_meta is called only once the last chunk was sent, the answer
\* had status 200 and the connection was released; when the answer has
\* another status or reading it raises, put raises, close() was called on
\* the connection, which is not released, and put_meta is not called.
C36_MetadataAfterContent ==
    /\ writer.put_meta_calls > 0 =>
          writer.finalized /\ writer.status = 200 /\ writer.conn = "released"
    /\ (writer.finalized /\ writer.pc \in {"put_meta", "returned", "raised"}
        /\ writer.status # 200) =>
          /\ writer.pc = "raised" /\ writer.raised # None
          /\ writer.conn \in {"closed", "close_raised"}
          /\ writer.put_meta_calls = 0

\* three bytes were written and the content PUT was answered with 404
C36_Witness ==
    /\ writer._upload_size = 3
    /\ writer.finalized /\ writer.status = 404
    /\ writer.pc = "raised" /\ writer.raised = "SproxydHTTPException"
    /\ writer.conn = "closed"
    /\ writer.put_meta_calls = 0

\* C37: an iteration of monitoring_loop invokes on_up only if its probe
\* succeeded, and it invokes at most one callback: never on_down and on_up
\* both.
C37_UpOnlyOnSuccess ==
    [][\A e \in Universe :
         LET invoked == SubSeq(cb_log'[e], Len(cb_log[e]) + 1, Len(cb_log'[e]))
         IN  /\ "up" \in Range(invoked) => ping_count'[e].ok = ping_count[e].ok + 1
             /\ Len(invoked) <= 1
      ]_vars

\* the endpoint went up and then down, and the probes have kept failing
\* since without a callback
C37_Witness ==
    /\ cb_log["A"] = <<"up", "down">>
    /\ ping_count["A"].ko >= 8
    /\ is_operational["A"] = "False"

\* C38: no update of the alive set is lost, however the monitoring threads
\* interleave: in every state the alive set of a constructed client holds
\* exactly the endpoints whose monitor did not invoke on_down last (from
\* {A}, on_down of A and on_up of B in either order end in {B}).
C38_NoLostUpdate ==
    construction.pc = "returned" =>
        client.alive = {e \in endpoints : is_operational[e] # "False"}

\* the monitor of A has invoked on_down after a network error and the
\* monitor of B on_up after a good probe: the alive set is {B}
C38_Witness ==
    /\ endpoints = {"A", "B"}
    /\ client.alive = {"B"}
    /\ is_operational["A"] = "False"
    /\ is_operational["B"] = "True"
    /\ probe["A"].exc = "IOError"
    /\ probe["B"].result
    /\ \A e \in endpoints : healthcheck_threads[e].at = "sleep"
\* C39: an iteration whose probe succeeds while the detector has a mean and
\* the flag of the loop is False invokes on_up: the endpoint is in the alive
\* set after this one probe, however long ago the last heartbeat was.
C39_UpAfterOneSuccess ==
    [][\A e \in Universe :
         (/\ afd[e].mean # NoMean
          /\ is_operational[e] = "False"
          /\ ping_count'[e].ok = ping_count[e].ok + 1)
         => /\ cb_log'[e] = Append(cb_log[e], "up")
            /\ is_operational'[e] = "True"
            /\ e \in client'.alive
      ]_vars

\* down after five failed probes, and up again at the first that succeeded
C39_Witness ==
    /\ cb_log["A"] = <<"up", "down", "up">>
    /\ ping_count["A"].ok = 4
    /\ ping_count["A"].ko >= 5
    /\ "A" \in client.alive

\* C40 as stated: an open() of a DiskFile that is not open which raises
\* DiskFileDeleted or DiskFileExpired leaves _metadata None, and a
\* get_metadata() or __enter__ that follows it raises DiskFileNotOpen.
C40_FailedOpenStaysNotOpen ==
    [][diskfile'.calls = diskfile.calls + 1 =>
         /\ (/\ diskfile._metadata = <<>>
             /\ diskfile'.called = "open"
             /\ diskfile'.raised \in {"DiskFileDeleted", "DiskFileExpired"})
            => diskfile'._metadata = <<>>
         /\ (/\ diskfile.called = "open"
             /\ diskfile.raised \in {"DiskFileDeleted", "DiskFileExpired"}
             /\ diskfile.calls = 1
             /\ diskfile'.called \in {"get_metadata", "__enter__"})
            => diskfile'.raised = "DiskFileNotOpen"
      ]_vars

\* C40: an open() of a DiskFile that is not open which raises
\* DiskFileDeleted leaves _metadata None, and a get_metadata() or __enter__
\* that follows it raises DiskFileNotOpen; an open() that raises
\* DiskFileExpired has set _metadata to the expired metadata, and a
\* get_metadata() or __enter__ that follows it returns.
C40_DeletedStaysNotOpenExpiredIsOpen ==
    [][diskfile'.calls = diskfile.calls + 1 =>
         /\ (diskfile._metadata = <<>> /\ diskfile'.called = "open") =>
               /\ diskfile'.raised = "DiskFileDeleted" => diskfile'._metadata = <<>>
               /\ diskfile'.raised = "DiskFileExpired" =>
                     /\ diskfile'._metadata # <<>>
                     /\ diskfile'._metadata[1].x_delete_at \in 1..MaxDeleteAt
         /\ (/\ diskfile.called = "open" /\ diskfile.calls = 1
             /\ diskfile'.called \in {"get_metadata", "__enter__"})
            => /\ diskfile.raised = "DiskFileDeleted" => diskfile'.raised = "DiskFileNotOpen"
               /\ diskfile.raised = "DiskFileExpired" => diskfile'.raised = None
      ]_vars

\* open() raised DiskFileExpired, __enter__ returned and get_metadata
\* returned
C40_Witness ==
    /\ diskfile.calls = 3
    /\ diskfile.called = "get_metadata" /\ diskfile.raised = None
    /\ diskfile._metadata # <<>>
    /\ diskfile._metadata[1].x_delete_at = 1
    /\ diskfile._metadata[1].mf = <<>>

====
